---- MODULE Spec2Model ----
(***************************************************************************)
(* A model of aws-quota-dashboard: the aggregation engine                  *)
(* (internal/aws/quotas.go), the region fetcher with its rate limiter and  *)
(* usage resolver, the expiring cache (internal/cache) and the cache       *)
(* fronted handlers (internal/handler).                                    *)
(*                                                                         *)
(* The module holds these specifications over one set of variables; each   *)
(* one moves its own group of variables and leaves the others idle:        *)
(*   Spec        GetQuotasForAllRegions: fan-out, warnings, dedup          *)
(*   SpecRegion  GetQuotasForRegion: limiter, listings, usage enrichment   *)
(*   SpecCache   Cache: Set / Get / Delete / Clear / cleanup under RWMutex *)
(*   SpecQuery   Handler: GetQuotas / ExportJSON / Refresh over the cache  *)
(*   SpecLimiter QuotaFetcher.limiter: the token bucket behind Wait        *)
(*   SpecListing Handler: GetRegions / GetServices over the cache          *)
(*   SpecLive    Spec with its goroutines scheduled fairly                 *)
(*   SpecDegraded  the GetQuotas of SpecQuery with regions failing singly  *)
(*   SpecKeys    the handlers of SpecQuery on parameters holding a colon   *)
(***************************************************************************)
EXTENDS Integers, Sequences, FiniteSets, TLC

(***************************************************************************)
(* Bounds of the model.                                                    *)
(***************************************************************************)
\* the configured cache TTL (cache.New(ttl)), in clock ticks
CacheTTL == 2
\* the last tick of the wall clock
MaxTime == 4
\* the number of HTTP requests served
MaxRequests == 3
\* clock ticks per second of the limiter's clock
TicksPerSecond == 5
\* the last tick of the limiter's clock
MaxLimiterTicks == 2
\* the number of limiter acquisitions followed
MaxAcquire == 12
\* longest region list handed to GetQuotasForAllRegions
MaxRegions == 3
\* largest configured maxConcurrency tried (the smallest tried is -1)
MaxConfigured == 2

(***************************************************************************)
(* Program constants.                                                      *)
(***************************************************************************)
\* NewQuotaFetcher: maxConcurrency when the configured value is <= 0
DefaultMaxConcurrency == 10
\* NewQuotaFetcher: rate.NewLimiter(rate.Limit(5), 10), tokens per second
LimiterRate == 5
\* NewQuotaFetcher: rate.NewLimiter(rate.Limit(5), 10), burst
LimiterBurst == 10

(***************************************************************************)
(* model.Quota                                                             *)
(***************************************************************************)
\* A rational number num/den in lowest terms stands for a float64 ratio.
RECURSIVE GCD(_, _)
GCD(a, b) == IF b = 0 THEN a ELSE GCD(b, a % b)

Ratio(n, d) == LET g == GCD(n, d) IN IF g = 0 THEN <<0, 1>> ELSE <<n \div g, d \div g>>

ZeroRatio == <<0, 1>>

\* The zero value of model.Quota with the fields buildQuotaList sets.
Quota(region, svcCode, svcName, quotaName, quotaCode, value, unit, adjustable, global) ==
    [Region |-> region, ServiceCode |-> svcCode, ServiceName |-> svcName,
     QuotaName |-> quotaName, QuotaCode |-> quotaCode, Value |-> value,
     Usage |-> 0, UsagePercentage |-> ZeroRatio, HasUsageMetrics |-> FALSE,
     Unit |-> unit, Adjustable |-> adjustable, Global |-> global]

(***************************************************************************)
(* Variables.                                                              *)
(***************************************************************************)
VARIABLES
    \* ---- aggregation engine (GetQuotasForAllRegions) ----
    configured,       \* the value handed to NewQuotaFetcher
    maxConcurrency,   \* QuotaFetcher.maxConcurrency
    regions,          \* the regions argument, a sequence of region codes
    mainPc,           \* position of the calling goroutine
    nextIdx,          \* index of the next region the for loop launches
    taskPc,           \* position of each region task (goroutine)
    launched,         \* how many goroutines g.Go started for each element
    taskOut,          \* what GetQuotasForRegion returned to each task
    taskTmp,          \* each task's copy of warnings read by append
    sem,              \* errgroup: number of tokens held in g.sem
    quotasChan,       \* the buffered channel of per-region quota lists
    warnings,         \* the shared warnings slice
    warningsMu,       \* holder of warningsMu (0: unlocked)
    ctxDone,          \* the caller's ctx is cancelled
    waitingAtCancel,  \* history: the region g.Go was blocked on then (0: none)
    allQuotas,        \* the concatenation read from quotasChan, before dedup
    result            \* the returned (*FetchResult, error)

VARIABLES
    \* ---- region fetcher (GetQuotasForRegion) for one region task ----
    rgWorld,          \* what the provider holds: service and quota pages
    rgFilter,         \* the serviceFilter argument
    rgCancelled,      \* ctx.Done() is closed
    rgBlocked,        \* the task sleeps inside limiter.Wait
    rgPc,             \* position of the task
    rgServices,       \* services listed so far / after the filter
    rgPage,           \* index of the next page of the running paginator
    rgSvcIdx,         \* index of the service being processed
    rgMap,            \* quotaMap of getQuotasForService
    rgPending,        \* codes of quotaMap the range loop has not visited
    rgCur,            \* the quota under construction, with its definition
    rgSvcQuotas,      \* quotas of buildQuotaList
    rgQuotas,         \* quotas of GetQuotasForRegion
    rgRet,            \* the returned (quotas, err)
    rgTrace           \* limiter acquisitions and remote calls, in order

regionVars == <<rgWorld, rgFilter, rgCancelled, rgBlocked, rgPc, rgServices, rgPage, rgSvcIdx,
                rgMap, rgPending, rgCur, rgSvcQuotas, rgQuotas, rgRet, rgTrace>>

VARIABLES
    \* ---- expiring cache (cache.Cache) ----
    cItems,           \* Cache.items: key -> Item{Value, ExpiresAt}
    cNow,             \* the wall clock, in ticks
    cMu,              \* Cache.mu: the writer holding it (0: none) and the readers
    cPc,              \* position of each caller of the cache
    cOp,              \* the operation each caller is in
    cRes,             \* what the caller's Get returned, and when
    swPc,             \* position of the cleanup goroutine
    cLive             \* history: when and what each key was last Set, unless
                      \* Delete or Clear removed it since

cacheVars == <<cItems, cNow, cMu, cPc, cOp, cRes, swPc, cLive>>

VARIABLES
    \* ---- HTTP handlers (handler.Handler) over the cache ----
    qPc,              \* position of each request in its handler
    qReq,             \* the request: handler and query parameters
    qRegions,         \* GetQuotas: regions
    qQuotas,          \* GetQuotas, ExportJSON: quotas
    qFromCache,       \* GetQuotas: fromCache
    qResp,            \* the response written
    qLog,             \* history: the provider and cache calls the request made
    qFresh,           \* history: what the cache held under the request's key
                      \* when the handler looked it up, or gave up before
    qAgg,             \* history: what the aggregation returned to the request
    qStored,          \* history: the arguments of the request's cache Set
    qCount,           \* history: the number of requests so far
    qCleared,         \* history: Clear ran between the request's miss and its Set
    qFailed           \* history: the regions whose fetch failed in the aggregation

queryVars == <<qPc, qReq, qRegions, qQuotas, qFromCache, qResp, qLog, qFresh, qAgg, qStored,
               qCount, qCleared, qFailed>>

VARIABLES
    \* ---- rate limiter (QuotaFetcher.limiter) ----
    lNow,             \* the limiter's clock, in ticks
    lTokens,          \* tokens in the bucket, in 1/TicksPerSecond of a token;
                      \* negative when reservations are outstanding
    lPc,              \* position of each caller of limiter.Wait
    lIdx,             \* the entry of lLog each caller's acquisition wrote
    lCancelled,       \* the context handed to Wait is done
    lLog              \* history: the acquisitions, in order

limVars == <<lNow, lTokens, lCancelled, lPc, lIdx, lLog>>

VARIABLES
    \* ---- listing handlers (Handler.GetRegions, Handler.GetServices) ----
    hPc,              \* position of each request
    hReq,             \* the request: its handler and its region parameter
    hResp,            \* the response written
    hLog,             \* history: cache and provider calls of the request
    hFresh,           \* history: what the request's cache.Get returned
    hListing,         \* regions / services, err of the provider call
    hStored,          \* history: the arguments of the request's cache Set
    hCount            \* history: the number of requests so far

listVars == <<hPc, hReq, hResp, hLog, hFresh, hListing, hStored, hCount>>

aggVars == <<configured, maxConcurrency, regions, mainPc, nextIdx, taskPc, launched, taskOut, taskTmp,
             sem, quotasChan, warnings, warningsMu, allQuotas, result, ctxDone,
             waitingAtCancel>>

vars == <<aggVars, regionVars, cacheVars, queryVars, limVars, listVars>>

\* the variables each specification leaves alone
notAggVars == <<regionVars, cacheVars, queryVars, limVars, listVars>>
notRegionVars == <<aggVars, cacheVars, queryVars, limVars, listVars>>
notCacheVars == <<aggVars, regionVars, queryVars, limVars, listVars>>
notQueryVars == <<aggVars, regionVars, cMu, cPc, cOp, cRes, swPc, cLive, limVars, listVars>>
notLimVars == <<aggVars, regionVars, cacheVars, queryVars, listVars>>
notListVars == <<aggVars, regionVars, cMu, cPc, cOp, cRes, swPc, cLive, queryVars, limVars>>

\* The idle values of a group under the specifications that do not move it.
AggIdle ==
    /\ configured = 0 /\ maxConcurrency = 0 /\ regions = <<>> /\ mainPc = "idle"
    /\ nextIdx = 0 /\ taskPc = <<>> /\ launched = <<>> /\ taskOut = <<>>
    /\ taskTmp = <<>> /\ sem = 0 /\ quotasChan = <<>> /\ warnings = <<>>
    /\ warningsMu = 0 /\ allQuotas = <<>> /\ result = <<>>
    /\ ctxDone = FALSE /\ waitingAtCancel = 0

CacheCallersIdle ==
    /\ cMu = <<>> /\ cPc = <<>> /\ cOp = <<>>
    /\ cRes = <<>> /\ swPc = "idle" /\ cLive = <<>>

CacheIdle ==
    /\ cItems = <<>> /\ cNow = 0
    /\ CacheCallersIdle

QueryIdle ==
    /\ qPc = <<>> /\ qReq = <<>> /\ qRegions = <<>> /\ qQuotas = <<>> /\ qFromCache = <<>>
    /\ qResp = <<>> /\ qLog = <<>> /\ qFresh = <<>> /\ qAgg = <<>> /\ qStored = <<>>
    /\ qCount = 0 /\ qCleared = <<>> /\ qFailed = <<>>

LimIdle ==
    /\ lNow = 0 /\ lTokens = 0 /\ lCancelled = FALSE /\ lPc = <<>> /\ lIdx = <<>> /\ lLog = <<>>

ListIdle ==
    /\ hPc = <<>> /\ hReq = <<>> /\ hResp = <<>> /\ hLog = <<>> /\ hFresh = <<>>
    /\ hListing = <<>> /\ hStored = <<>> /\ hCount = 0

RegionIdle ==
    /\ rgWorld = <<>> /\ rgFilter = "" /\ rgCancelled = FALSE /\ rgBlocked = FALSE
    /\ rgPc = "idle"
    /\ rgServices = <<>> /\ rgPage = 0 /\ rgSvcIdx = 0 /\ rgMap = <<>>
    /\ rgPending = {} /\ rgCur = <<>> /\ rgSvcQuotas = <<>> /\ rgQuotas = <<>>
    /\ rgRet = <<>> /\ rgTrace = <<>>

(***************************************************************************)
(* Inputs of the aggregation engine.                                       *)
(***************************************************************************)
AllRegions == <<"us-east-1", "us-west-2", "eu-west-1", "ap-south-1", "sa-east-1">>

\* Errors GetQuotasForRegion can return: LoadConfig or GetServices failed.
RegionErrors == {"LoadConfig", "ListServices"}

\* Quotas a region fetch may return.  The service and quota codes of Left and
\* Right are chosen so that two different (service code, quota code) pairs
\* concatenate to the same dedup key "a:b:c".
Local(r)  == Quota(r, "ec2", "EC2", "Running instances", "L-1", 5, "None", TRUE, FALSE)
Spot(r)   == Quota(r, "ec2", "EC2", "Spot instances", "L-3", 5, "None", TRUE, FALSE)
Shared(r) == Quota(r, "iam", "IAM", "Roles", "L-2", 7, "None", TRUE, TRUE)
Left(r)   == Quota(r, "a:b", "AB", "Left", "c", 3, "None", FALSE, TRUE)
Right(r)  == Quota(r, "a", "A", "Right", "b:c", 4, "None", FALSE, TRUE)

\* The quota lists a successful fetch of region r may return.
RegionQuotaLists(r) ==
    { <<>>, <<Local(r)>>, <<Shared(r), Local(r), Spot(r)>>, <<Left(r), Shared(r)>>,
      <<Right(r), Local(r)>> }

\* (quotas, err) as returned by GetQuotasForRegion(ctx, r, serviceFilter).
FetchOutcomes(r) ==
    { [err |-> e, quotas |-> <<>>] : e \in RegionErrors }
    \cup { [err |-> "nil", quotas |-> qs] : qs \in RegionQuotaLists(r) }

\* The regions argument: the first n enabled regions, or (from the selector
\* "us-east-1,us-east-1" split at the commas) one region named twice.
RegionLists ==
    { SubSeq(AllRegions, 1, n) : n \in 0..MaxRegions }
    \cup { <<"us-east-1", "us-east-1">> }

\* (quotas, err) of a GetQuotasForRegion whose ctx is done: LoadConfig fails,
\* or GetServices returns the error of its first limiter.Wait
CancelledOutcomes ==
    { [err |-> e, quotas |-> <<>>] : e \in {"LoadConfig", "Wait"} }

NoOutcome == [err |-> "none", quotas |-> <<>>]

NoResult == [returned |-> FALSE, err |-> "nil", Quotas |-> <<>>, Warnings |-> <<>>]

(***************************************************************************)
(* NewQuotaFetcher                                                         *)
(***************************************************************************)
NewQuotaFetcherBroken(n) == n

NewQuotaFetcher(n) ==
    IF n <= 0 THEN DefaultMaxConcurrency ELSE n

(***************************************************************************)
(* deduplicateGlobalQuotas                                                 *)
(***************************************************************************)
DedupKey(q) == q.ServiceCode \o ":" \o q.QuotaCode

RECURSIVE DedupFrom(_, _, _)
DedupFrom(quotas, seen, acc) ==
    IF quotas = <<>> THEN acc
    ELSE LET q == Head(quotas) IN
         IF q.Global
         THEN IF DedupKey(q) \in seen
              THEN DedupFrom(Tail(quotas), seen, acc)
              ELSE DedupFrom(Tail(quotas), seen \cup {DedupKey(q)},
                             Append(acc, [q EXCEPT !.Region = "global"]))
         ELSE DedupFrom(Tail(quotas), seen, Append(acc, q))

\* a dedup that rewrites the region but drops no duplicate
RECURSIVE DedupKeepsAll(_)
DedupKeepsAll(quotas) ==
    IF quotas = <<>> THEN <<>>
    ELSE LET q == Head(quotas) IN
         <<IF q.Global THEN [q EXCEPT !.Region = "global"] ELSE q>>
             \o DedupKeepsAll(Tail(quotas))

deduplicateGlobalQuotas(quotas) == DedupFrom(quotas, {}, <<>>)

(***************************************************************************)
(* GetQuotasForAllRegions                                                  *)
(***************************************************************************)
Tasks == 1..Len(regions)

\* fmt.Sprintf("Failed to fetch quotas for region %s: %v", region, err)
WarningFor(region, err) ==
    "Failed to fetch quotas for region " \o region \o ": " \o err

\* warningsMu.Lock() may proceed
MutexFreeBroken(mu) == TRUE

MutexFree(mu) == mu = 0

\* g.Go may start another goroutine: a token fits into g.sem
SlotFreeBroken(held, limit) == TRUE

SlotFree(held, limit) == held < limit

\* a channel without a buffer
ChanUnbuffered(n) == 0

\* make(chan []model.Quota, len(regions)): the capacity of quotasChan
ChanCapacity(n) == n

RECURSIVE Flatten(_)
Flatten(lists) ==
    IF lists = <<>> THEN <<>> ELSE Head(lists) \o Flatten(Tail(lists))

Init ==
    /\ configured \in (-1)..MaxConfigured
    /\ maxConcurrency = NewQuotaFetcher(configured)
    /\ regions \in RegionLists
    /\ mainPc = "loop"
    /\ nextIdx = 1
    /\ taskPc = [i \in Tasks |-> "idle"]
    /\ launched = [i \in Tasks |-> 0]
    /\ taskOut = [i \in Tasks |-> NoOutcome]
    /\ taskTmp = [i \in Tasks |-> <<>>]
    /\ sem = 0
    /\ quotasChan = <<>>
    /\ warnings = <<>>
    /\ warningsMu = 0
    /\ allQuotas = <<>>
    /\ result = NoResult
    /\ ctxDone = FALSE
    /\ waitingAtCancel = 0
    /\ RegionIdle
    /\ CacheIdle
    /\ QueryIdle
    /\ LimIdle
    /\ ListIdle

\* the caller's ctx is cancelled while GetQuotasForAllRegions runs; the
\* history variable notes the region whose g.Go is blocked on g.sem
Cancel ==
    /\ mainPc \in {"loop", "wait"}
    /\ ~ctxDone
    /\ ctxDone' = TRUE
    /\ waitingAtCancel' = IF /\ mainPc = "loop"
                             /\ nextIdx <= Len(regions)
                             /\ ~SlotFree(sem, maxConcurrency)
                          THEN nextIdx ELSE 0
    /\ UNCHANGED <<configured, maxConcurrency, regions, mainPc, nextIdx, taskPc, launched,
                   taskOut, taskTmp, sem, quotasChan, warnings, warningsMu, allQuotas,
                   result>>
    /\ UNCHANGED notAggVars

\* g.Go(func): blocks until g.sem takes a token (g.sem <- token{}, whatever
\* ctx is), then starts the goroutine.
Launch ==
    /\ mainPc = "loop"
    /\ nextIdx <= Len(regions)
    /\ SlotFree(sem, maxConcurrency)
    /\ sem' = sem + 1
    /\ taskPc' = [taskPc EXCEPT ![nextIdx] = IF ctxDone THEN "fetchDone" ELSE "fetch"]
    /\ nextIdx' = nextIdx + 1
    /\ launched' = [launched EXCEPT ![nextIdx] = @ + 1]
    /\ UNCHANGED <<ctxDone, waitingAtCancel, configured, maxConcurrency, regions, mainPc, taskOut, taskTmp, quotasChan,
                   warnings, warningsMu, allQuotas, result>>
    /\ UNCHANGED notAggVars

\* the for loop over regions ends: the caller goes on to g.Wait()
LoopEnd ==
    /\ mainPc = "loop"
    /\ nextIdx > Len(regions)
    /\ mainPc' = "wait"
    /\ UNCHANGED <<ctxDone, waitingAtCancel, configured, maxConcurrency, regions, nextIdx, taskPc, launched, taskOut, taskTmp, sem,
                   quotasChan, warnings, warningsMu, allQuotas, result>>
    /\ UNCHANGED notAggVars

\* quotas, err := f.GetQuotasForRegion(ctx, region, serviceFilter); a fetch
\* begun under a done ctx fails; one that ctx's end overtakes may also
\* return what it has
Fetch(i) ==
    /\ taskPc[i] \in {"fetch", "fetchDone"}
    /\ \E out \in (IF taskPc[i] = "fetchDone" THEN CancelledOutcomes
                   ELSE FetchOutcomes(regions[i])
                        \cup (IF ctxDone THEN CancelledOutcomes ELSE {})) :
        /\ taskOut' = [taskOut EXCEPT ![i] = out]
        /\ taskPc' = [taskPc EXCEPT ![i] = IF out.err # "nil" THEN "lock" ELSE "send"]
    /\ UNCHANGED <<ctxDone, waitingAtCancel, configured, maxConcurrency, regions, mainPc, nextIdx, launched, taskTmp, sem, quotasChan,
                   warnings, warningsMu, allQuotas, result>>
    /\ UNCHANGED notAggVars

\* warningsMu.Lock()
LockWarnings(i) ==
    /\ taskPc[i] = "lock"
    /\ MutexFree(warningsMu)
    /\ warningsMu' = i
    /\ taskPc' = [taskPc EXCEPT ![i] = "read"]
    /\ UNCHANGED <<ctxDone, waitingAtCancel, configured, maxConcurrency, regions, mainPc, nextIdx, launched, taskOut, taskTmp, sem,
                   quotasChan, warnings, allQuotas, result>>
    /\ UNCHANGED notAggVars

\* append(warnings, ...) reads the slice ...
ReadWarnings(i) ==
    /\ taskPc[i] = "read"
    /\ taskTmp' = [taskTmp EXCEPT ![i] = warnings]
    /\ taskPc' = [taskPc EXCEPT ![i] = "write"]
    /\ UNCHANGED <<ctxDone, waitingAtCancel, configured, maxConcurrency, regions, mainPc, nextIdx, launched, taskOut, sem, quotasChan,
                   warnings, warningsMu, allQuotas, result>>
    /\ UNCHANGED notAggVars

\* ... and warnings = ... stores the extended slice
WriteWarnings(i) ==
    /\ taskPc[i] = "write"
    /\ warnings' = Append(taskTmp[i], WarningFor(regions[i], taskOut[i].err))
    /\ taskPc' = [taskPc EXCEPT ![i] = "unlock"]
    /\ UNCHANGED <<ctxDone, waitingAtCancel, configured, maxConcurrency, regions, mainPc, nextIdx, launched, taskOut, taskTmp, sem,
                   quotasChan, warningsMu, allQuotas, result>>
    /\ UNCHANGED notAggVars

\* warningsMu.Unlock(); return nil; the deferred g.done() frees the slot
UnlockWarnings(i) ==
    /\ taskPc[i] = "unlock"
    /\ warningsMu' = IF warningsMu = i THEN 0 ELSE warningsMu
    /\ taskPc' = [taskPc EXCEPT ![i] = "done"]
    /\ sem' = sem - 1
    /\ UNCHANGED <<ctxDone, waitingAtCancel, configured, maxConcurrency, regions, mainPc, nextIdx, launched, taskOut, taskTmp,
                   quotasChan, warnings, allQuotas, result>>
    /\ UNCHANGED notAggVars

\* quotasChan <- quotas; return nil; the deferred g.done() frees the slot
Send(i) ==
    /\ taskPc[i] = "send"
    /\ Len(quotasChan) < ChanCapacity(Len(regions))
    /\ quotasChan' = Append(quotasChan, taskOut[i].quotas)
    /\ taskPc' = [taskPc EXCEPT ![i] = "done"]
    /\ sem' = sem - 1
    /\ UNCHANGED <<ctxDone, waitingAtCancel, configured, maxConcurrency, regions, mainPc, nextIdx, launched, taskOut, taskTmp,
                   warnings, warningsMu, allQuotas, result>>
    /\ UNCHANGED notAggVars

\* g.Wait() returns nil (no task returns an error); close(quotasChan); the
\* channel is drained, deduplicated and the FetchResult returned.
Collect ==
    /\ mainPc = "wait"
    /\ \A i \in Tasks : taskPc[i] = "done"
    /\ allQuotas' = Flatten(quotasChan)
    /\ quotasChan' = <<>>
    /\ result' = [returned |-> TRUE, err |-> "nil",
                  Quotas |-> deduplicateGlobalQuotas(Flatten(quotasChan)),
                  Warnings |-> warnings]
    /\ mainPc' = "done"
    /\ UNCHANGED <<ctxDone, waitingAtCancel, configured, maxConcurrency, regions, nextIdx, taskPc, launched, taskOut, taskTmp, sem,
                   warnings, warningsMu>>
    /\ UNCHANGED notAggVars

Next ==
    \/ Cancel
    \/ Launch
    \/ LoopEnd
    \/ \E i \in Tasks : Fetch(i)
    \/ \E i \in Tasks : LockWarnings(i)
    \/ \E i \in Tasks : ReadWarnings(i)
    \/ \E i \in Tasks : WriteWarnings(i)
    \/ \E i \in Tasks : UnlockWarnings(i)
    \/ \E i \in Tasks : Send(i)
    \/ Collect

Spec == Init /\ [][Next]_vars

\* the steps of the caller and of the goroutines other than the region
\* fetch itself and the cancellation: the Go scheduler runs a goroutine
\* that can run
Progress ==
    \/ Launch
    \/ LoopEnd
    \/ \E i \in Tasks : LockWarnings(i)
    \/ \E i \in Tasks : ReadWarnings(i)
    \/ \E i \in Tasks : WriteWarnings(i)
    \/ \E i \in Tasks : UnlockWarnings(i)
    \/ \E i \in Tasks : Send(i)
    \/ Collect

\* GetQuotasForAllRegions under a scheduler that lets runnable goroutines run
SpecLive == Init /\ [][Next]_vars /\ WF_vars(Progress)

(***************************************************************************)
(* Helpers of the properties.                                              *)
(***************************************************************************)
\* number of positions of seq that hold x
Count(seq, x) == Cardinality({ k \in 1..Len(seq) : seq[k] = x })

Failed == { i \in Tasks : taskOut[i].err \notin {"nil", "none"} }
Succeeded == { i \in Tasks : taskOut[i].err = "nil" }

\* goroutines started by g.Go that have not returned yet
InFlight == { i \in Tasks : taskPc[i] \notin {"idle", "done"} }

RECURSIVE SumCount(_, _)
SumCount(tasks, q) ==
    IF tasks = {} THEN 0
    ELSE LET i == CHOOSE t \in tasks : TRUE
         IN Count(taskOut[i].quotas, q) + SumCount(tasks \ {i}, q)

\* c.JSON(http.StatusOK, model.QuotaResponse{...})
QuotaResponse(quotas, fromCache) ==
    [status |-> 200, quotas |-> quotas, total |-> Len(quotas), fromCache |-> fromCache]

\* c.JSON(status, gin.H{"error": ...})
ErrorResponse(status) == [status |-> status, quotas |-> <<>>, total |-> 0, fromCache |-> FALSE]

Range(seq) == { seq[k] : k \in 1..Len(seq) }

(***************************************************************************)
(* C1  Dedup invariant: the list GetQuotasForAllRegions returns holds at   *)
(* most one quota with Global=true per (ServiceCode, QuotaCode) pair, and  *)
(* every quota with Global=true has Region "global".                       *)
(***************************************************************************)
C1_DedupInvariant ==
    result.returned =>
        LET qs == result.Quotas IN
        /\ \A i, j \in 1..Len(qs) :
              ( /\ qs[i].Global /\ qs[j].Global
                /\ qs[i].ServiceCode = qs[j].ServiceCode
                /\ qs[i].QuotaCode = qs[j].QuotaCode ) => i = j
        /\ \A i \in 1..Len(qs) : qs[i].Global => qs[i].Region = "global"

\* two regions returned the same global quota and the result was returned
C1_Witness ==
    /\ result.returned
    /\ \E i, j \in Succeeded : \E a \in Range(taskOut[i].quotas), b \in Range(taskOut[j].quotas) :
          /\ i # j /\ a.Global /\ b.Global
          /\ a.ServiceCode = b.ServiceCode /\ a.QuotaCode = b.QuotaCode
    /\ Len(result.Quotas) < Len(allQuotas)

(***************************************************************************)
(* C2  Partial failure isolation: whatever regions fail and however the    *)
(* tasks interleave, the call returns a nil error, the concatenated list   *)
(* (before dedup) holds exactly the quotas of the regions that succeeded,  *)
(* and the warnings hold exactly one warning per failed region, naming it; *)
(* when every region fails the quota list is empty.                        *)
(***************************************************************************)
C2_PartialFailureIsolation ==
    result.returned =>
        /\ result.err = "nil"
        /\ Len(allQuotas) = Len(Flatten([k \in 1..Len(regions) |->
                                  IF k \in Succeeded THEN taskOut[k].quotas ELSE <<>>]))
        /\ \A q \in Range(allQuotas) \cup UNION { Range(taskOut[i].quotas) : i \in Succeeded } :
              Count(allQuotas, q) = SumCount(Succeeded, q)
        /\ Len(result.Warnings) = Cardinality(Failed)
        /\ \A i \in Failed :
              Count(result.Warnings, WarningFor(regions[i], taskOut[i].err))
                = Cardinality({ j \in Failed :
                      WarningFor(regions[j], taskOut[j].err)
                        = WarningFor(regions[i], taskOut[i].err) })
        /\ (Succeeded = {} => result.Quotas = <<>>)

\* two regions failed, a third delivered quotas, and the call has returned
C2_Witness ==
    /\ result.returned
    /\ Cardinality(Failed) >= 2
    /\ \E i \in Succeeded : taskOut[i].quotas # <<>>

\* the scenario: both regions of ["us-east-1", "us-west-2"] answered with one
\* global quota, the same in both, and two quotas of their own
Scenario ==
    /\ result.returned
    /\ regions = <<"us-east-1", "us-west-2">>
    /\ \A i \in Tasks :
          taskOut[i] = [err |-> "nil",
                        quotas |-> <<Shared(regions[i]), Local(regions[i]), Spot(regions[i])>>]

\* how many quotas of a list carry the region
InRegion(quotas, region) ==
    Cardinality({ k \in 1..Len(quotas) : quotas[k].Region = region })

\* as stated: three quotas, one of them global, leave one local quota of
\* us-east-1 and four quotas in the result
C23_ScenarioFourQuotas ==
    Scenario =>
        /\ Len(result.Quotas) = 4
        /\ InRegion(result.Quotas, "global") = 1
        /\ InRegion(result.Quotas, "us-east-1") = 1
        /\ InRegion(result.Quotas, "us-west-2") = 2

(***************************************************************************)
(* C23  End-to-end scenario: for regions [us-east-1, us-west-2] where      *)
(* us-east-1 returns 3 quotas (1 global) and us-west-2 returns the same    *)
(* global quota plus 2 region-local ones, the final result has 5 quotas:   *)
(* the global one once, with region "global", the 2 local ones of          *)
(* us-east-1 and the 2 local ones of us-west-2; Total of the response      *)
(* envelope built from the list is its length.                             *)
(***************************************************************************)
C23_EndToEndScenario ==
    Scenario =>
        /\ Len(result.Quotas) = 5
        /\ InRegion(result.Quotas, "global") = 1
        /\ InRegion(result.Quotas, "us-east-1") = 2
        /\ InRegion(result.Quotas, "us-west-2") = 2
        /\ \A k \in 1..Len(result.Quotas) :
              result.Quotas[k].Global <=> result.Quotas[k].Region = "global"
        /\ result.Warnings = <<>>
        /\ QuotaResponse(result.Quotas, FALSE).total = Len(result.Quotas)

\* the scenario ran to its end with the six fetched quotas merged
C23_Witness ==
    /\ Scenario
    /\ Len(allQuotas) = 6
    /\ Shared("global") \in Range(result.Quotas)

\* quotas[k] is not global, or no global quota before it has its
\* (service code, quota code) pair
FirstOfPair(quotas, k) ==
    quotas[k].Global =>
        \A j \in 1..(k - 1) :
            ~( /\ quotas[j].Global
               /\ quotas[j].ServiceCode = quotas[k].ServiceCode
               /\ quotas[j].QuotaCode = quotas[k].QuotaCode )

\* the quotas at the positions FirstOfPair keeps, in order, the global ones
\* with region "global"
KeepFirstOfPair(quotas) ==
    LET F[k \in 0..Len(quotas)] ==
            IF k = 0 THEN <<>>
            ELSE IF FirstOfPair(quotas, k)
                 THEN Append(F[k - 1], IF quotas[k].Global
                                       THEN [quotas[k] EXCEPT !.Region = "global"]
                                       ELSE quotas[k])
                 ELSE F[k - 1]
    IN  F[Len(quotas)]

\* the (service code, quota code) pairs of the global quotas of a list
GlobalPairs(quotas) ==
    { <<quotas[k].ServiceCode, quotas[k].QuotaCode>> :
        k \in { i \in 1..Len(quotas) : quotas[i].Global } }

(***************************************************************************)
(* C28  Dedup keeps everything else: the returned list is the concatenated *)
(* list without the global quotas whose (service code, quota code) pair    *)
(* occurred in an earlier global quota: non-global quotas all stay, as     *)
(* they are; of each pair the first global quota stays, its region         *)
(* rewritten to "global"; the order is kept; the length is the number of   *)
(* non-global quotas plus the number of distinct global pairs.             *)
(***************************************************************************)
C28_DedupKeepsRest ==
    result.returned =>
        /\ result.Quotas = KeepFirstOfPair(allQuotas)
        /\ Len(result.Quotas) =
              Cardinality({ k \in 1..Len(allQuotas) : ~allQuotas[k].Global })
                + Cardinality(GlobalPairs(allQuotas))

\* the global quotas of the concatenated list
GlobalQuotas == { allQuotas[k] : k \in { i \in 1..Len(allQuotas) : allQuotas[i].Global } }

\* global quotas with different pairs have different seen-keys
C37_DistinctKeys ==
    \A p \in GlobalQuotas, q \in GlobalQuotas :
        <<p.ServiceCode, p.QuotaCode>> # <<q.ServiceCode, q.QuotaCode>> =>
            DedupKey(p) # DedupKey(q)

\* every pair of a global quota of the concatenated list is in the result
C37_NoPairDropped ==
    result.returned => GlobalPairs(allQuotas) \subseteq GlobalPairs(result.Quotas)

\* C37: dedup keys are injective: two global quotas with different
\* (service code, quota code) pairs are never treated as duplicates of one
\* another, so deduplication never drops a global quota whose pair has not
\* been seen before.
C37_DedupKeysInjective == C37_DistinctKeys /\ C37_NoPairDropped

\* every region fetch has returned
AllFetched == \A i \in Tasks : taskOut[i] # NoOutcome

\* a task at its send finds room in quotasChan; the channel holds one list
\* per task that has sent; it is closed and drained only when every task
\* has finished
C32_Delivery ==
    /\ \A i \in Tasks : taskPc[i] = "send" => Len(quotasChan) < Len(regions)
    /\ ~result.returned =>
          Len(quotasChan) = Cardinality({ i \in Tasks : taskPc[i] = "done"
                                                        /\ taskOut[i].err = "nil" })
    /\ result.returned => \A i \in Tasks : taskPc[i] = "done"
    /\ maxConcurrency >= 1

\* C32: aggregation terminates without deadlock: for any number of regions,
\* zero included, and any maxConcurrency >= 1, once every region fetch has
\* returned GetQuotasForAllRegions returns; no task blocks at its send, each
\* task sends at most once into a channel with room for one list per region,
\* and the channel is closed only after every task has finished.
C32_Terminates == []C32_Delivery /\ (AllFetched ~> result.returned)

\* three regions under maxConcurrency 1 have all been fetched, two of them
\* delivered a list, and the call has returned
C32_Witness ==
    /\ result.returned
    /\ Len(regions) = 3 /\ maxConcurrency = 1
    /\ AllFetched
    /\ Cardinality(Succeeded) = 2

(***************************************************************************)
(* C3  Concurrency cap: at most maxConcurrency region fetches are in       *)
(* flight (10 when the configured value is <= 0), and exactly one fetch is *)
(* launched per element of the region list.                                *)
(***************************************************************************)
C3_ConcurrencyCap ==
    /\ Cardinality(InFlight) <= maxConcurrency
    /\ maxConcurrency = (IF configured <= 0 THEN 10 ELSE configured)
    /\ \A i \in Tasks : launched[i] <= 1
    /\ result.returned => \A i \in Tasks : launched[i] = 1 /\ taskOut[i] # NoOutcome

\* the cap binds: as many fetches in flight as allowed, one region waiting
C3_Witness ==
    /\ Cardinality(InFlight) = maxConcurrency
    /\ mainPc = "loop"
    /\ nextIdx <= Len(regions)

(***************************************************************************)
(* C14  Waiting for a free slot respects cancellation: the region whose    *)
(* g.Go was waiting for a slot when ctx was cancelled is never started.    *)
(* The code does not keep this: g.Go waits on g.sem whatever ctx is, and   *)
(* starts the goroutine, which calls GetQuotasForRegion, once a slot is    *)
(* free.                                                                   *)
(***************************************************************************)
C14_SlotWaitRespectsCancel ==
    waitingAtCancel # 0 => launched[waitingAtCancel] = 0

(***************************************************************************)
(*                       THE REGION FETCHER                                *)
(***************************************************************************)
\* A Go pointer is a sequence: <<>> for nil, <<x>> for a pointer to x.
Nil == <<>>
Ptr(x) == <<x>>

\* safeString
safeString(s) == IF s = Nil THEN "" ELSE s[1]

\* the region this task fetches
TaskRegion == "us-east-1"

SvcEC2 == [Code |-> "ec2", Name |-> "Amazon Elastic Compute Cloud (Amazon EC2)"]
SvcVPC == [Code |-> "vpc", Name |-> "Amazon Virtual Private Cloud (Amazon VPC)"]

\* sqtypes.MetricInfo
MetricInfo(ns, name, rec) ==
    [MetricNamespace |-> ns, MetricName |-> name, MetricStatisticRecommendation |-> rec]

\* sqtypes.ServiceQuota
ServiceQuota(code, name, value, unit, adjustable, global, metric) ==
    [QuotaCode |-> code, QuotaName |-> name, Value |-> value, Unit |-> unit,
     Adjustable |-> adjustable, GlobalQuota |-> global, UsageMetric |-> metric]

\* Quota definitions the provider lists.  L-1216C47A has an ec2 probe in the
\* dispatch table; L-F678F1CE has a vpc probe, so under ec2 its service
\* code does not match; L-0000 has no probe.
DefRunning ==
    ServiceQuota(Ptr("L-1216C47A"), Ptr("Running On-Demand Standard instances"), Ptr(5),
                 Ptr("None"), TRUE, FALSE,
                 Ptr(MetricInfo(Ptr("AWS/Usage"), Ptr("ResourceCount"), Nil)))
AppliedRunning ==
    ServiceQuota(Ptr("L-1216C47A"), Ptr("Running On-Demand Standard instances"), Ptr(8),
                 Ptr("None"), TRUE, FALSE,
                 Ptr(MetricInfo(Ptr("AWS/Usage"), Ptr("ResourceCount"), Ptr("Average"))))
DefMismatch ==
    ServiceQuota(Ptr("L-F678F1CE"), Ptr("VPCs per Region"), Nil, Nil, FALSE, TRUE,
                 Ptr(MetricInfo(Nil, Ptr("ResourceCount"), Nil)))
DefNoCode ==
    ServiceQuota(Nil, Ptr("Unnamed"), Ptr(1), Nil, FALSE, FALSE, Nil)
DefVPCs ==
    ServiceQuota(Ptr("L-F678F1CE"), Ptr("VPCs per Region"), Ptr(5), Ptr("None"), TRUE, FALSE,
                 Ptr(MetricInfo(Ptr("AWS/Usage"), Ptr("ResourceCount"), Ptr("Bogus"))))
DefInterfaces ==
    ServiceQuota(Ptr("L-DF5E4CA3"), Ptr("Network interfaces per Region"), Ptr(0),
                 Ptr("None"), TRUE, FALSE,
                 Ptr(MetricInfo(Ptr("AWS/Usage"), Ptr("ResourceCount"), Ptr(""))))
DefPlain ==
    ServiceQuota(Ptr("L-0000"), Ptr("Rules per security group"), Ptr(0), Ptr("None"), TRUE,
                 FALSE, Nil)

\* What the provider holds: the pages ListServices returns, and the pages
\* ListAWSDefaultServiceQuotas and ListServiceQuotas return by service code.
Worlds ==
    { [svcPages |-> << <<SvcEC2, SvcVPC>> >>,
       quotaPages |->
         [ec2 |-> [default |-> << <<DefRunning, DefMismatch>> >>,
                   applied |-> << <<AppliedRunning>> >>],
          vpc |-> [default |-> << <<DefVPCs>> >>, applied |-> << <<>> >>]]],
      [svcPages |-> << <<SvcEC2>>, <<SvcVPC>> >>,
       quotaPages |->
         [ec2 |-> [default |-> << <<DefRunning>>, <<DefNoCode, DefPlain>> >>,
                   applied |-> << <<>> >>],
          vpc |-> [default |-> << <<>> >>,
                   applied |-> << <<DefVPCs, DefInterfaces>> >>]]],
      [svcPages |-> << <<>> >>,
       quotaPages |->
         [ec2 |-> [default |-> << <<>> >>, applied |-> << <<>> >>],
          vpc |-> [default |-> << <<>> >>, applied |-> << <<>> >>]]] }

ServiceFilters == {"", "EC2", "s3"}

\* Unicode case folding on the strings of the model.
Fold(str) ==
    CASE str = "EC2" -> "ec2"
      [] str = "VPC" -> "vpc"
      [] str = "S3"  -> "s3"
      [] str = "Amazon " -> "amazon "
      [] str = "Running On-Demand instances" -> "running on-demand instances"
      [] str = "s per Region" -> "s per region"
      [] OTHER -> str

\* a comparison that tells letter cases apart (s.Code == serviceFilter)
EqualExact(a, b) == a = b

\* strings.EqualFold
EqualFold(a, b) == Fold(a) = Fold(b)

\* what a direct resource probe can count
ProbeUsages == {0, 4}

\* cwtypes.Datapoint
Datapoint(ts, max, avg, sum, min) ==
    [Timestamp |-> ts, Maximum |-> max, Average |-> avg, Sum |-> sum, Minimum |-> min]

\* what GetMetricStatistics can return
DatapointLists ==
    { <<>>,
      <<Datapoint(1, Ptr(2), Ptr(1), Nil, Nil)>>,
      <<Datapoint(1, Ptr(2), Ptr(1), Nil, Nil), Datapoint(2, Ptr(4), Nil, Nil, Nil)>>,
      <<Datapoint(2, Nil, Ptr(3), Nil, Nil), Datapoint(2, Ptr(1), Ptr(1), Nil, Nil)>> }

\* what GetMetricStatistics can do
MetricOutcomes ==
    { [err |-> TRUE, datapoints |-> <<>>] }
    \cup { [err |-> FALSE, datapoints |-> d] : d \in DatapointLists }

(***************************************************************************)
(* The dispatch table and GetUsageDirectly                                 *)
(***************************************************************************)
QuotaCodeToServiceMapping ==
    { <<"L-1194D53C", "eks">>, <<"L-6D3F50E6", "eks">>, <<"L-23414FF3", "eks">>,
      <<"L-6E77F4DE", "eks">>,
      <<"L-1216C47A", "ec2">>, <<"L-0263D0A3", "ec2">>, <<"L-0E3CBAB9", "ec2">>,
      <<"L-0DA580E9", "ec2">>, <<"L-309BACF6", "ec2">>, <<"L-407747CB", "ec2">>,
      <<"L-FE5A380F", "ec2">>,
      <<"L-D18FCD1D", "ebs">>, <<"L-7A658B76", "ebs">>, <<"L-FD252861", "ebs">>,
      <<"L-09BD8365", "ebs">>,
      <<"L-F678F1CE", "vpc">>, <<"L-DF5E4CA3", "vpc">>, <<"L-E79EC296", "vpc">>,
      <<"L-53DA6B97", "elasticloadbalancing">>, <<"L-69A177A2", "elasticloadbalancing">>,
      <<"L-B22855CB", "elasticloadbalancing">>,
      <<"L-CDE20ADC", "autoscaling">>,
      <<"L-DC2B2D3D", "s3">>,
      <<"L-9FEE3D26", "lambda">>,
      <<"L-7B6409FD", "rds">>, <<"L-952B80B8", "rds">>,
      <<"L-F98FE922", "dynamodb">>,
      <<"L-5B2E3F44", "cloudfront">>,
      <<"L-ACB674F3", "route53">>,
      <<"L-4019AD8D", "iam">>, <<"L-FE177D64", "iam">>, <<"L-0DA4ABF3", "iam">>,
      <<"L-D0B7243C", "iam">>,
      <<"L-61103206", "sns">>,
      <<"L-75826ACE", "sqs">>,
      <<"L-CFEB8E8D", "ecr">> }

\* a guard that looks the quota code up and does not compare service codes
ProbeAppliesAnyService(quota) ==
    \E e \in QuotaCodeToServiceMapping : e[1] = quota.QuotaCode

\* GetUsageDirectly reaches LoadConfig and the handler: the quota code has
\* an entry and the entry's service code is the quota's
ProbeApplies(quota) ==
    \E e \in QuotaCodeToServiceMapping :
        e[1] = quota.QuotaCode /\ e[2] = quota.ServiceCode

\* what LoadConfig and the probe handler can do: LoadConfig fails, the
\* handler fails, or the handler returns a count
ProbeOutcomes ==
    { [kind |-> "cfgErr", usage |-> 0], [kind |-> "err", usage |-> 0] }
    \cup { [kind |-> "ok", usage |-> u] : u \in ProbeUsages }

\* (usage, supported, err) of GetUsageDirectly
GetUsageDirectly(quota, outcome) ==
    IF ~ProbeApplies(quota) THEN [usage |-> 0, supported |-> FALSE, err |-> FALSE]
    ELSE IF outcome.kind # "ok"
         THEN [usage |-> 0, supported |-> FALSE, err |-> TRUE]
         ELSE [usage |-> outcome.usage, supported |-> TRUE, err |-> FALSE]

(***************************************************************************)
(* Usage enrichment                                                        *)
(***************************************************************************)
\* (quota.Usage / quota.Value) * 100
Percentage(usage, value) == Ratio(usage * 100, value)

\* a version that does not return on the error and stores the usage 0 that
\* came with it
enrichWithDirectAPIIgnoresErr(quota, r) ==
    IF r.supported \/ r.err
    THEN [quota EXCEPT !.HasUsageMetrics = TRUE, !.Usage = r.usage]
    ELSE quota

\* enrichWithDirectAPI, given what GetUsageDirectly returned
enrichWithDirectAPI(quota, r) ==
    IF r.err THEN quota
    ELSE IF r.supported
         THEN [quota EXCEPT !.HasUsageMetrics = TRUE,
                            !.Usage = r.usage,
                            !.UsagePercentage =
                                IF quota.Value > 0 THEN Percentage(r.usage, quota.Value)
                                ELSE @]
         ELSE quota

\* a version that stores the usage and forgets the percentage
updateQuotaUsageNoPercentage(quota, value) == [quota EXCEPT !.Usage = value]

updateQuotaUsage(quota, value) ==
    [quota EXCEPT !.Usage = value,
                  !.UsagePercentage =
                      IF quota.Value > 0 THEN Percentage(value, quota.Value) ELSE @]

getStatisticFromRecommendation(recommendation) ==
    IF recommendation # Nil /\ recommendation[1] # "" THEN recommendation[1]
    ELSE "Maximum"

\* index of the datapoint findLatestDatapoint points to (0: nil)
RECURSIVE LatestFrom(_, _, _)
LatestFrom(datapoints, i, latest) ==
    IF i > Len(datapoints) THEN latest
    ELSE IF latest = 0 \/ datapoints[i].Timestamp > datapoints[latest].Timestamp
         THEN LatestFrom(datapoints, i + 1, i)
         ELSE LatestFrom(datapoints, i + 1, latest)

\* a lookup that takes the first datapoint of the answer
findFirstDatapoint(datapoints) == IF datapoints = <<>> THEN 0 ELSE 1

findLatestDatapoint(datapoints) == LatestFrom(datapoints, 1, 0)

extractValueFromDatapoint(datapoint, stat) ==
    CASE stat = "Maximum" -> IF datapoint.Maximum # Nil THEN datapoint.Maximum[1] ELSE 0
      [] stat = "Average" -> IF datapoint.Average # Nil THEN datapoint.Average[1] ELSE 0
      [] stat = "Sum"     -> IF datapoint.Sum # Nil THEN datapoint.Sum[1] ELSE 0
      [] stat = "Minimum" -> IF datapoint.Minimum # Nil THEN datapoint.Minimum[1] ELSE 0
      [] OTHER            -> IF datapoint.Maximum # Nil THEN datapoint.Maximum[1] ELSE 0

processCloudWatchResult(datapoints, stat, quota) ==
    IF Len(datapoints) = 0 THEN quota
    ELSE LET latest == findLatestDatapoint(datapoints) IN
         IF latest = 0 THEN quota
         ELSE updateQuotaUsage([quota EXCEPT !.HasUsageMetrics = TRUE],
                               extractValueFromDatapoint(datapoints[latest], stat))

\* enrichWithUsageFromCloudWatch returns before the query: no namespace or name
MetricUnusable(usageMetric) ==
    usageMetric.MetricNamespace = Nil \/ usageMetric.MetricName = Nil

\* the condition of buildQuotaList under which the metric lookup runs
MetricLookupAlways(quota, q) == q.UsageMetric # Nil

MetricLookupNeeded(quota, q) == ~quota.HasUsageMetrics /\ q.UsageMetric # Nil

\* the model.Quota literal of buildQuotaList
NewQuota(region, svc, q) ==
    Quota(region, svc.Code, svc.Name, safeString(q.QuotaName), safeString(q.QuotaCode),
          IF q.Value # Nil THEN q.Value[1] ELSE 0, safeString(q.Unit), q.Adjustable,
          q.GlobalQuota)

(***************************************************************************)
(* GetQuotasForRegion, step by step                                        *)
(***************************************************************************)
\* events of rgTrace
WaitEvent(ok) == [op |-> "Wait", svc |-> "", code |-> "", ok |-> ok]
CallEvent(op, svc, code, ok) == [op |-> op, svc |-> svc, code |-> code, ok |-> ok]

ListingOps == {"ListServices", "ListAWSDefaultServiceQuotas", "ListServiceQuotas"}

\* every request the fetch sends to the provider
RemoteOps == ListingOps \cup {"DescribeRegions", "Probe", "Metric"}

\* a client call that is handed context.Background() instead of ctx
ContextBackground(cancelled) == FALSE

\* the ctx every client call is handed: done once the caller has cancelled
ContextDone(cancelled) == cancelled

\* a client call under ctx: with ctx done it returns ctx's error and sends
\* nothing ("Refused"); otherwise the request op goes out and ends with ok
Request(cancelled, op, svc, code, ok) ==
    IF ContextDone(cancelled) THEN CallEvent("Refused", svc, code, FALSE)
    ELSE CallEvent(op, svc, code, ok)

EmptyMap == [c \in {} |-> Nil]

NoCur == [quota |-> Quota("", "", "", "", "", 0, "", FALSE, FALSE), def |-> DefPlain,
          src |-> "none", probe |-> "none", metric |-> "none", datapoints |-> <<>>]

\* how GetUsageDirectly ended: not attempted (0, false, nil), with an error,
\* or with a usage
ProbeEnd(r) == IF r.err THEN "err" ELSE IF r.supported THEN "ok" ELSE "unsupported"

\* how enrichWithUsageFromCloudWatch ended: the descriptor lacks a name, the
\* query failed, or the query was answered
MetricEnd(um, res) ==
    IF MetricUnusable(um) THEN "unusable" ELSE IF res.err THEN "err" ELSE "answered"

NoRet == [returned |-> FALSE, quotas |-> <<>>, err |-> "nil"]

\* the services kept by the serviceFilter loop
RECURSIVE FilterServices(_, _)
FilterServices(services, filter) ==
    IF services = <<>> THEN <<>>
    ELSE (IF EqualFold(Head(services).Code, filter) THEN <<Head(services)>> ELSE <<>>)
         \o FilterServices(Tail(services), filter)

ApplyFilter(services, filter) ==
    IF filter # "" THEN FilterServices(services, filter) ELSE services

\* a loop that leaves an entry of quotaMap alone once it is there
RECURSIVE PutPageKeepsFirst(_, _)
PutPageKeepsFirst(m, page) ==
    IF page = <<>> THEN m
    ELSE LET q == Head(page) IN
         IF q.QuotaCode # Nil /\ q.QuotaCode[1] \notin DOMAIN m
         THEN PutPageKeepsFirst([c \in DOMAIN m \cup {q.QuotaCode[1]} |->
                                    IF c = q.QuotaCode[1] THEN q ELSE m[c]], Tail(page))
         ELSE PutPageKeepsFirst(m, Tail(page))

\* quotaMap after the loop over one page: entries with a quota code are stored
RECURSIVE PutPage(_, _)
PutPage(m, page) ==
    IF page = <<>> THEN m
    ELSE LET q == Head(page) IN
         IF q.QuotaCode # Nil
         THEN PutPage([c \in DOMAIN m \cup {q.QuotaCode[1]} |->
                          IF c = q.QuotaCode[1] THEN q ELSE m[c]], Tail(page))
         ELSE PutPage(m, Tail(page))

\* where a fetch loop goes when limiter.Wait fails: it returns
WaitFailed(retPc, pagePc) == retPc

\* a listing loop that waits for the limiter before its first page only
LoopHeadWaitsOnce(waitPc, pagePc) == pagePc

\* for paginator.HasMorePages() { f.limiter.Wait(ctx); paginator.NextPage(ctx) }:
\* every turn of the loop begins at the Wait
LoopHead(waitPc, pagePc) == waitPc

\* a GetQuotasForRegion that goes on with the services listed so far when
\* GetServices fails
ServicesFailedGoesOn(retPc, loopPc) == loopPc

\* GetQuotasForRegion: services, err := f.GetServices(ctx, region);
\* if err != nil { return nil, err }
ServicesFailed(retPc, loopPc) == retPc

CurService == rgServices[rgSvcIdx]

\* the positions at a f.limiter.Wait(ctx)
WaitPcs == {"svcWait0", "svcWait", "defWait", "appWait"}

\* limiter.Wait(ctx) that returns nil although ctx is done
WaitIgnoresContext(cancelled) == TRUE

\* limiter.Wait(ctx): nil when the token came, ctx's error when ctx is done
\* (at entry, or first while the caller sleeps)
WaitReturnsNil(cancelled) == ~cancelled

InitRegion ==
    /\ rgWorld \in Worlds
    /\ rgFilter \in ServiceFilters
    /\ rgCancelled = FALSE
    /\ rgBlocked = FALSE
    /\ rgPc = "enumerate"
    /\ rgServices = <<>>
    /\ rgPage = 1
    /\ rgSvcIdx = 1
    /\ rgMap = EmptyMap
    /\ rgPending = {}
    /\ rgCur = NoCur
    /\ rgSvcQuotas = <<>>
    /\ rgQuotas = <<>>
    /\ rgRet = NoRet
    /\ rgTrace = <<>>
    /\ AggIdle
    /\ CacheIdle
    /\ QueryIdle
    /\ LimIdle
    /\ ListIdle

\* the caller's cancellation signal fires
RgCancel ==
    /\ rgPc # "done"
    /\ ~rgCancelled
    /\ rgCancelled' = TRUE
    /\ UNCHANGED <<rgBlocked, rgWorld, rgFilter, rgPc, rgServices, rgPage, rgSvcIdx, rgMap, rgPending,
                   rgCur, rgSvcQuotas, rgQuotas, rgRet, rgTrace>>
    /\ UNCHANGED notRegionVars

\* aws.GetRegions, called by the handler before the fetch (the selector is
\* "all"): LoadConfig, then DescribeRegions
RgEnumerate ==
    /\ rgPc = "enumerate"
    /\ \E cfgOk, callOk \in BOOLEAN :
        /\ (ContextDone(rgCancelled) => ~callOk)
        /\ rgTrace' = IF cfgOk
                      THEN Append(rgTrace,
                                  Request(rgCancelled, "DescribeRegions", "", "", callOk))
                      ELSE rgTrace
        /\ IF cfgOk /\ callOk
           THEN rgPc' = "start" /\ rgRet' = rgRet
           ELSE rgPc' = "done"
                /\ rgRet' = [returned |-> TRUE, quotas |-> <<>>, err |-> "GetRegions"]
    /\ UNCHANGED <<rgBlocked, rgWorld, rgFilter, rgCancelled, rgServices, rgPage, rgSvcIdx, rgMap,
                   rgPending, rgCur, rgSvcQuotas, rgQuotas>>
    /\ UNCHANGED notRegionVars

\* GetQuotasForRegion: cfg, err := LoadConfig(ctx, region)
RgLoadConfig ==
    /\ rgPc = "start"
    /\ \E ok \in BOOLEAN :
        IF ok THEN rgPc' = "svcWait0" /\ rgRet' = rgRet
        ELSE rgPc' = "done"
             /\ rgRet' = [returned |-> TRUE, quotas |-> <<>>, err |-> "LoadConfig"]
    /\ UNCHANGED <<rgBlocked, rgWorld, rgFilter, rgCancelled, rgServices, rgPage, rgSvcIdx, rgMap,
                   rgPending, rgCur, rgSvcQuotas, rgQuotas, rgTrace>>
    /\ UNCHANGED notRegionVars

\* f.limiter.Wait(ctx) finds no token in the bucket: the caller sleeps until
\* its token has come or ctx is done, whichever is first
RgWaitBlock ==
    /\ rgPc \in WaitPcs
    /\ ~rgCancelled
    /\ ~rgBlocked
    /\ rgBlocked' = TRUE
    /\ UNCHANGED <<rgWorld, rgFilter, rgCancelled, rgPc, rgServices, rgPage, rgSvcIdx, rgMap,
                   rgPending, rgCur, rgSvcQuotas, rgQuotas, rgRet, rgTrace>>
    /\ UNCHANGED notRegionVars

\* GetServices: f.limiter.Wait(ctx) returns, the first or the one before a page
RgServicesWait ==
    /\ rgPc \in {"svcWait0", "svcWait"}
    /\ rgTrace' = Append(rgTrace, WaitEvent(WaitReturnsNil(rgCancelled)))
    /\ rgBlocked' = FALSE
    /\ IF ~WaitReturnsNil(rgCancelled)
       THEN rgPc' = "done"
            /\ rgRet' = [returned |-> TRUE, quotas |-> <<>>, err |-> "Wait"]
       ELSE rgPc' = (IF rgPc = "svcWait0" THEN "svcCfg" ELSE "svcPage")
            /\ rgRet' = rgRet
    /\ UNCHANGED <<rgWorld, rgFilter, rgCancelled, rgServices, rgPage, rgSvcIdx, rgMap,
                   rgPending, rgCur, rgSvcQuotas, rgQuotas>>
    /\ UNCHANGED notRegionVars

\* GetServices: cfg, err := LoadConfig(ctx, region); the paginator is built
RgServicesConfig ==
    /\ rgPc = "svcCfg"
    /\ \E ok \in BOOLEAN :
        IF ok THEN rgPc' = "svcWait" /\ rgRet' = rgRet
        ELSE rgPc' = "done"
             /\ rgRet' = [returned |-> TRUE, quotas |-> <<>>, err |-> "LoadConfig"]
    /\ rgPage' = 1
    /\ UNCHANGED <<rgBlocked, rgWorld, rgFilter, rgCancelled, rgServices, rgSvcIdx, rgMap,
                   rgPending, rgCur, rgSvcQuotas, rgQuotas, rgTrace>>
    /\ UNCHANGED notRegionVars

\* GetServices: paginator.NextPage(ctx) and the append loop; after the last
\* page GetQuotasForRegion applies the service filter
RgServicesPage ==
    /\ rgPc = "svcPage"
    /\ \E ok \in BOOLEAN :
        /\ (ContextDone(rgCancelled) => ~ok)
        /\ rgTrace' = Append(rgTrace, Request(rgCancelled, "ListServices", "", "", ok))
        /\ IF ~ok
           THEN /\ rgPc' = ServicesFailed("done", "svcBegin")
                /\ rgRet' = IF rgPc' = "done"
                            THEN [returned |-> TRUE, quotas |-> <<>>, err |-> "ListServices"]
                            ELSE rgRet
                /\ rgServices' = IF rgPc' = "done" THEN rgServices
                                 ELSE ApplyFilter(rgServices, rgFilter)
                /\ rgSvcIdx' = IF rgPc' = "done" THEN rgSvcIdx ELSE 1
                /\ UNCHANGED rgPage
           ELSE /\ rgRet' = rgRet
                /\ rgPage' = rgPage + 1
                /\ IF rgPage + 1 <= Len(rgWorld.svcPages)
                   THEN /\ rgServices' = rgServices \o rgWorld.svcPages[rgPage]
                        /\ rgPc' = LoopHead("svcWait", "svcPage")
                        /\ rgSvcIdx' = rgSvcIdx
                   ELSE /\ rgServices' =
                              ApplyFilter(rgServices \o rgWorld.svcPages[rgPage], rgFilter)
                        /\ rgPc' = "svcBegin"
                        /\ rgSvcIdx' = 1
    /\ UNCHANGED <<rgBlocked, rgWorld, rgFilter, rgCancelled, rgMap, rgPending, rgCur, rgSvcQuotas,
                   rgQuotas>>
    /\ UNCHANGED notRegionVars

\* a GetQuotasForRegion that reports the listing that failed
RgReturnReportsFailure ==
    /\ rgPc = "svcBegin"
    /\ rgSvcIdx > Len(rgServices)
    /\ rgPc' = "done"
    /\ rgRet' = [returned |-> TRUE, quotas |-> rgQuotas,
                 err |-> IF \E k \in 1..Len(rgTrace) : ~rgTrace[k].ok
                         THEN "listing failed" ELSE "nil"]
    /\ UNCHANGED <<rgBlocked, rgWorld, rgFilter, rgCancelled, rgServices, rgPage, rgSvcIdx, rgMap,
                   rgPending, rgCur, rgSvcQuotas, rgQuotas, rgTrace>>
    /\ UNCHANGED notRegionVars

\* GetQuotasForRegion: the loop over services is over: return quotas, nil
RgReturn ==
    /\ rgPc = "svcBegin"
    /\ rgSvcIdx > Len(rgServices)
    /\ rgPc' = "done"
    /\ rgRet' = [returned |-> TRUE, quotas |-> rgQuotas, err |-> "nil"]
    /\ UNCHANGED <<rgBlocked, rgWorld, rgFilter, rgCancelled, rgServices, rgPage, rgSvcIdx, rgMap,
                   rgPending, rgCur, rgSvcQuotas, rgQuotas, rgTrace>>
    /\ UNCHANGED notRegionVars

\* getQuotasForService: LoadConfig; on error the service is skipped, else
\* quotaMap is made and fetchDefaultQuotas builds its paginator
RgServiceBegin ==
    /\ rgPc = "svcBegin"
    /\ rgSvcIdx <= Len(rgServices)
    /\ \E ok \in BOOLEAN :
        IF ok THEN rgPc' = "defWait" /\ rgSvcIdx' = rgSvcIdx
        ELSE rgPc' = "svcBegin" /\ rgSvcIdx' = rgSvcIdx + 1
    /\ rgMap' = EmptyMap
    /\ rgPage' = 1
    /\ UNCHANGED <<rgBlocked, rgWorld, rgFilter, rgCancelled, rgServices, rgPending, rgCur,
                   rgSvcQuotas, rgQuotas, rgRet, rgTrace>>
    /\ UNCHANGED notRegionVars

\* fetchDefaultQuotas / fetchAppliedQuotas: f.limiter.Wait(ctx) returns; on error the
\* function returns and getQuotasForService goes on
RgQuotasWait ==
    /\ rgPc \in {"defWait", "appWait"}
    /\ rgTrace' = Append(rgTrace, WaitEvent(WaitReturnsNil(rgCancelled)))
    /\ rgBlocked' = FALSE
    /\ IF ~WaitReturnsNil(rgCancelled)
       THEN /\ rgPc' = WaitFailed(IF rgPc = "defWait" THEN "appWait" ELSE "build",
                                  IF rgPc = "defWait" THEN "defPage" ELSE "appPage")
            /\ rgPage' = IF rgPc' \in {"appWait", "build"} THEN 1 ELSE rgPage
            /\ rgPending' = IF rgPc' = "build" THEN DOMAIN rgMap ELSE rgPending
            /\ rgSvcQuotas' = IF rgPc' = "build" THEN <<>> ELSE rgSvcQuotas
       ELSE /\ rgPc' = (IF rgPc = "defWait" THEN "defPage" ELSE "appPage")
            /\ UNCHANGED <<rgPage, rgPending, rgSvcQuotas>>
    /\ UNCHANGED <<rgWorld, rgFilter, rgCancelled, rgServices, rgSvcIdx, rgMap, rgCur,
                   rgQuotas, rgRet>>
    /\ UNCHANGED notRegionVars

\* fetchDefaultQuotas: paginator.NextPage(ctx) and the loop storing the page
RgDefaultPage ==
    /\ rgPc = "defPage"
    /\ LET pages == rgWorld.quotaPages[CurService.Code].default IN
       \E ok \in BOOLEAN :
        /\ (ContextDone(rgCancelled) => ~ok)
        /\ rgTrace' = Append(rgTrace,
                         Request(rgCancelled, "ListAWSDefaultServiceQuotas",
                                 CurService.Code, "", ok))
        /\ IF ~ok
           THEN rgPc' = "appWait" /\ rgPage' = 1 /\ rgMap' = rgMap
           ELSE /\ rgMap' = PutPage(rgMap, pages[rgPage])
                /\ IF rgPage + 1 <= Len(pages)
                   THEN rgPc' = LoopHead("defWait", "defPage") /\ rgPage' = rgPage + 1
                   ELSE rgPc' = "appWait" /\ rgPage' = 1
    /\ UNCHANGED <<rgBlocked, rgWorld, rgFilter, rgCancelled, rgServices, rgSvcIdx, rgPending, rgCur,
                   rgSvcQuotas, rgQuotas, rgRet>>
    /\ UNCHANGED notRegionVars

\* fetchAppliedQuotas: paginator.NextPage(ctx) and the loop storing the page;
\* after it buildQuotaList starts to range over quotaMap
RgAppliedPage ==
    /\ rgPc = "appPage"
    /\ LET pages == rgWorld.quotaPages[CurService.Code].applied IN
       \E ok \in BOOLEAN :
        /\ (ContextDone(rgCancelled) => ~ok)
        /\ rgTrace' = Append(rgTrace,
                         Request(rgCancelled, "ListServiceQuotas", CurService.Code, "", ok))
        /\ IF ok /\ rgPage + 1 <= Len(pages)
           THEN /\ rgMap' = PutPage(rgMap, pages[rgPage])
                /\ rgPc' = LoopHead("appWait", "appPage") /\ rgPage' = rgPage + 1
                /\ UNCHANGED <<rgPending, rgSvcQuotas>>
           ELSE /\ rgMap' = (IF ok THEN PutPage(rgMap, pages[rgPage]) ELSE rgMap)
                /\ rgPc' = "build" /\ rgPage' = 1
                /\ rgPending' = DOMAIN rgMap'
                /\ rgSvcQuotas' = <<>>
    /\ UNCHANGED <<rgBlocked, rgWorld, rgFilter, rgCancelled, rgServices, rgSvcIdx, rgCur, rgQuotas,
                   rgRet>>
    /\ UNCHANGED notRegionVars

\* buildQuotaList: the range loop takes the next entry of quotaMap (in any
\* order), builds the model.Quota and calls enrichWithDirectAPI
RgBuildProbe ==
    /\ rgPc = "build"
    /\ \E code \in rgPending : \E outcome \in ProbeOutcomes :
        LET q == rgMap[code]
            quota == NewQuota(TaskRegion, CurService, q)
            r == GetUsageDirectly(quota, outcome)
            enriched == enrichWithDirectAPI(quota, r)
        IN  \* without a probe for the quota nothing is called
            /\ (~ProbeApplies(quota) => outcome = [kind |-> "cfgErr", usage |-> 0])
            /\ (ContextDone(rgCancelled) => outcome.kind # "ok")
            /\ rgPending' = rgPending \ {code}
            /\ rgTrace' = IF ProbeApplies(quota) /\ outcome.kind # "cfgErr"
                          THEN Append(rgTrace, Request(rgCancelled, "Probe", quota.ServiceCode,
                                                       quota.QuotaCode, outcome.kind = "ok"))
                          ELSE rgTrace
            /\ rgCur' = [quota |-> enriched, def |-> q,
                         src |-> IF enriched.HasUsageMetrics THEN "direct" ELSE "none",
                         probe |-> ProbeEnd(r), metric |-> "none", datapoints |-> <<>>]
            /\ IF MetricLookupNeeded(enriched, q)
               THEN rgPc' = "metric" /\ rgSvcQuotas' = rgSvcQuotas
               ELSE rgPc' = "build" /\ rgSvcQuotas' = Append(rgSvcQuotas, enriched)
    /\ UNCHANGED <<rgBlocked, rgWorld, rgFilter, rgCancelled, rgServices, rgPage, rgSvcIdx, rgMap,
                   rgQuotas, rgRet>>
    /\ UNCHANGED notRegionVars

\* enrichWithUsageFromCloudWatch, then quotas = append(quotas, quota)
RgMetric ==
    /\ rgPc = "metric"
    /\ LET um == rgCur.def.UsageMetric[1]
           stat == getStatisticFromRecommendation(um.MetricStatisticRecommendation)
       IN \E res \in MetricOutcomes :
            LET enriched == IF MetricUnusable(um) \/ res.err THEN rgCur.quota
                            ELSE processCloudWatchResult(res.datapoints, stat, rgCur.quota)
            IN /\ (MetricUnusable(um) => res = [err |-> TRUE, datapoints |-> <<>>])
               /\ (ContextDone(rgCancelled) => res.err)
               /\ rgTrace' = IF MetricUnusable(um) THEN rgTrace
                             ELSE Append(rgTrace,
                                         Request(rgCancelled, "Metric", rgCur.quota.ServiceCode,
                                                 rgCur.quota.QuotaCode, ~res.err))
               /\ rgCur' = [rgCur EXCEPT !.quota = enriched,
                               !.src = IF enriched.HasUsageMetrics /\ @ = "none"
                                       THEN "metric" ELSE @,
                               !.metric = MetricEnd(um, res),
                               !.datapoints = res.datapoints]
               /\ rgSvcQuotas' = Append(rgSvcQuotas, enriched)
    /\ rgPc' = "build"
    /\ UNCHANGED <<rgBlocked, rgWorld, rgFilter, rgCancelled, rgServices, rgPage, rgSvcIdx, rgMap,
                   rgPending, rgQuotas, rgRet>>
    /\ UNCHANGED notRegionVars

\* buildQuotaList returns; quotas = append(quotas, svcQuotas...); next service
RgServiceDone ==
    /\ rgPc = "build"
    /\ rgPending = {}
    /\ rgQuotas' = rgQuotas \o rgSvcQuotas
    /\ rgSvcQuotas' = <<>>
    /\ rgSvcIdx' = rgSvcIdx + 1
    /\ rgPc' = "svcBegin"
    /\ UNCHANGED <<rgBlocked, rgWorld, rgFilter, rgCancelled, rgServices, rgPage, rgMap, rgPending,
                   rgCur, rgRet, rgTrace>>
    /\ UNCHANGED notRegionVars

NextRegion ==
    \/ RgCancel
    \/ RgWaitBlock
    \/ RgEnumerate
    \/ RgLoadConfig
    \/ RgServicesWait
    \/ RgServicesConfig
    \/ RgServicesPage
    \/ RgReturn
    \/ RgServiceBegin
    \/ RgQuotasWait
    \/ RgDefaultPage
    \/ RgAppliedPage
    \/ RgBuildProbe
    \/ RgMetric
    \/ RgServiceDone

SpecRegion == InitRegion /\ [][NextRegion]_vars

(***************************************************************************)
(* Properties of the region fetcher.                                       *)
(***************************************************************************)
\* every quota the fetch has completed, returned or not
RegionQuotas == Range(rgSvcQuotas) \cup Range(rgQuotas) \cup Range(rgRet.quotas)

TraceIdx == 1..Len(rgTrace)

(***************************************************************************)
(* C5  Usage percentage invariant: a quota with HasUsageMetrics and        *)
(* Value > 0 has UsagePercentage = Usage / Value * 100; a quota without    *)
(* HasUsageMetrics has Usage 0 and UsagePercentage 0; UsagePercentage is   *)
(* never non-zero when Value <= 0.  (The percentage is the ratio n/d.)     *)
(***************************************************************************)
C5_UsagePercentage ==
    \A q \in RegionQuotas :
        /\ (q.HasUsageMetrics /\ q.Value > 0) =>
              /\ q.UsagePercentage[2] > 0
              /\ q.UsagePercentage[1] * q.Value = q.Usage * 100 * q.UsagePercentage[2]
        /\ ~q.HasUsageMetrics => (q.Usage = 0 /\ q.UsagePercentage = ZeroRatio)
        /\ q.Value <= 0 => q.UsagePercentage = ZeroRatio

\* the fetch returned a quota with a non-zero percentage, one with usage but
\* no limit, and one without usage data
C5_Witness ==
    /\ rgRet.returned
    /\ \E q \in Range(rgRet.quotas) :
          q.HasUsageMetrics /\ q.Value > 0 /\ q.Usage > 0 /\ q.UsagePercentage[1] > 0
    /\ \E q \in Range(rgRet.quotas) : q.HasUsageMetrics /\ q.Value = 0 /\ q.Usage > 0
    /\ \E q \in Range(rgRet.quotas) : ~q.HasUsageMetrics

(***************************************************************************)
(* C6  Strict priority of the usage strategies: for every quota the direct *)
(* probe comes before the metric lookup, the lookup is issued only when    *)
(* the probe did not set HasUsageMetrics and the definition carries a      *)
(* usage metric, and usage set by a probe is never overwritten by a metric *)
(* value.                                                                  *)
(***************************************************************************)
C6_StrictPriority ==
    /\ rgPc = "metric" =>
          /\ ~rgCur.quota.HasUsageMetrics
          /\ rgCur.src = "none"
          /\ rgCur.def.UsageMetric # Nil
    /\ \A k, l \in TraceIdx :
          ( /\ rgTrace[k].op = "Metric" /\ rgTrace[l].op = "Probe"
            /\ rgTrace[k].svc = rgTrace[l].svc /\ rgTrace[k].code = rgTrace[l].code )
          => (l < k /\ ~rgTrace[l].ok)
    /\ rgCur.src = "direct" => rgCur.quota.HasUsageMetrics

\* a probe failed and the metric lookup of the same quota followed; another
\* probe succeeded
C6_Witness ==
    /\ \E k, l \in TraceIdx :
          /\ k < l /\ rgTrace[k].op = "Probe" /\ ~rgTrace[k].ok
          /\ rgTrace[l].op = "Metric" /\ rgTrace[l].code = rgTrace[k].code
    /\ \E k \in TraceIdx : rgTrace[k].op = "Probe" /\ rgTrace[k].ok

(***************************************************************************)
(* C10  Rate-limited quota API: every page request to ListServices,        *)
(* ListAWSDefaultServiceQuotas and ListServiceQuotas directly follows a    *)
(* successful limiter.Wait of the task (none follows a failed one), and    *)
(* region enumeration, direct probes and metric queries acquire no token.  *)
(***************************************************************************)
C10_RateLimitedListing ==
    \A k \in TraceIdx :
        /\ rgTrace[k].op \in ListingOps =>
              (k > 1 /\ rgTrace[k - 1] = WaitEvent(TRUE))
        /\ rgTrace[k].op \in {"DescribeRegions", "Probe", "Metric"} =>
              (k = 1 \/ rgTrace[k - 1] # WaitEvent(TRUE))

\* after a cancellation a Wait failed, and the run holds requests of every kind
C10_Witness ==
    /\ \A op \in ListingOps \cup {"DescribeRegions", "Probe", "Metric"} :
          \E k \in TraceIdx : rgTrace[k].op = op
    /\ \E k \in TraceIdx : rgTrace[k] = WaitEvent(FALSE)

(***************************************************************************)
(* C12  Limiter acquisition under cancellation: limiter.Wait blocks until  *)
(* the token has come or ctx is done; when ctx is done first it returns an *)
(* error and no listing request follows it; a Wait error inside            *)
(* GetServices is returned by GetQuotasForRegion, whose fetch fails with   *)
(* no quotas.                                                              *)
(***************************************************************************)
C12_WaitState ==
    /\ rgBlocked => rgPc \in WaitPcs
    /\ \A k \in TraceIdx :
          rgTrace[k] = WaitEvent(FALSE) =>
             /\ rgCancelled
             /\ \A l \in TraceIdx : l > k => rgTrace[l].op \notin ListingOps
    /\ rgRet.err = "Wait" =>
          /\ rgRet.returned /\ rgRet.quotas = <<>> /\ rgPc = "done"
          /\ rgTrace[Len(rgTrace)] = WaitEvent(FALSE)

C12_WaitStep ==
    \* a sleeping caller leaves Wait with nil exactly when ctx was not done
    /\ (rgBlocked /\ ~rgBlocked') => rgTrace' = Append(rgTrace, WaitEvent(~rgCancelled))
    \* a Wait error inside GetServices ends the region fetch with that error
    /\ (rgPc \in {"svcWait0", "svcWait"} /\ rgTrace' = Append(rgTrace, WaitEvent(FALSE)))
          => rgRet' = [returned |-> TRUE, quotas |-> <<>>, err |-> "Wait"]

\* C12: the state and the step properties above, in every run
C12_AcquireUnderCancel == []C12_WaitState /\ [][C12_WaitStep]_vars

\* the fetch failed on a Wait of GetServices after an earlier Wait had
\* returned nil and a page had been listed
C12_Witness ==
    /\ rgRet.returned /\ rgRet.err = "Wait"
    /\ \E k \in TraceIdx : rgTrace[k] = WaitEvent(TRUE)
    /\ \E k \in TraceIdx : rgTrace[k].op = "ListServices"

\* the task has seen that ctx is done: a Wait or a client call returned
\* ctx's error
Observed(k) == rgTrace[k] = WaitEvent(FALSE) \/ rgTrace[k].op = "Refused"

QuotaListingOps == {"ListAWSDefaultServiceQuotas", "ListServiceQuotas"}

\* the positions inside fetchDefaultQuotas and fetchAppliedQuotas
ListingPcs == {"defWait", "defPage", "appWait", "appPage"}

\* this step is a limiter.Wait or a page request of a quota listing failing
ListingFails ==
    /\ rgPc \in ListingPcs
    /\ Len(rgTrace') = Len(rgTrace) + 1
    /\ ~rgTrace'[Len(rgTrace')].ok

\* a page request of a quota listing has failed during the fetch
ListingFailed ==
    \E k \in TraceIdx :
        /\ ~rgTrace[k].ok
        /\ \/ rgTrace[k].op \in QuotaListingOps
           \/ rgTrace[k].op = "Refused" /\ rgTrace[k].svc # "" /\ rgTrace[k].code = ""

\* the positions inside the loop over the services
LoopPcs == ListingPcs \cup {"svcBegin", "build", "metric"}

\* the failing step ends the listing it is in and nothing else: what is in
\* quotaMap and in quotas stays, no error is kept, the fetch goes on
C38_FailureStep ==
    ListingFails =>
        /\ rgPc' = (IF rgPc \in {"defWait", "defPage"} THEN "appWait" ELSE "build")
        /\ rgMap' = rgMap
        /\ rgQuotas' = rgQuotas
        /\ rgRet' = rgRet /\ ~rgRet.returned

\* the fetch that has entered the loop over the services returns success,
\* with the quotas it has appended
C38_ReturnStep ==
    (rgPc \in LoopPcs /\ ~rgRet.returned /\ rgRet'.returned) =>
        rgRet' = [returned |-> TRUE, quotas |-> rgQuotas, err |-> "nil"]

\* a fetch in which a listing failed has returned success
C38_Returned ==
    (rgRet.returned /\ ListingFailed) => rgRet.err = "nil" /\ rgRet.quotas = rgQuotas

\* C38: silent partial region: when a limiter acquisition or a page
\* request fails while the region task lists a service's default or applied
\* quotas, the region fetch still returns success with the quotas gathered
\* so far: a possibly incomplete list, and no error to make a warning of.
C38_SilentPartialRegion ==
    []C38_Returned /\ [][C38_FailureStep /\ C38_ReturnStep]_vars

\* the second default page of ec2 failed: the fetch returned success with
\* the quota of the first page and without the ones of the second
C38_Witness ==
    /\ rgRet.returned /\ rgRet.err = "nil"
    /\ Len(rgWorld.quotaPages["ec2"].default) = 2
    /\ \E k \in TraceIdx :
          rgTrace[k] = CallEvent("ListAWSDefaultServiceQuotas", "ec2", "", FALSE)
    /\ \E q \in Range(rgRet.quotas) : q.ServiceCode = "ec2" /\ q.QuotaCode = "L-1216C47A"
    /\ ~\E q \in Range(rgRet.quotas) : q.ServiceCode = "ec2" /\ q.QuotaCode = "L-0000"

\* the caller cancelled during the listings: the limiter refused, and the
\* fetch returned success with fewer quotas than the provider holds
C38_CancelWitness ==
    /\ rgRet.returned /\ rgRet.err = "nil" /\ rgCancelled
    /\ rgServices # <<>>
    /\ rgTrace[Len(rgTrace)] = WaitEvent(FALSE)
    /\ rgRet.quotas = <<>>

(***************************************************************************)
(* C16  Service-level failure isolation: when a request listing the quotas *)
(* of service S fails, the region's result holds no quota of S, the fetch  *)
(* goes on with the other services and returns no error.  The code does    *)
(* not keep the first part: fetchDefaultQuotas and fetchAppliedQuotas      *)
(* return on the error without reporting it, and getQuotasForService       *)
(* builds the quotas of S from whatever the other listing, or the pages    *)
(* before the failing one, had put into quotaMap.                          *)
(***************************************************************************)
C16_ServiceFailureIsolation ==
    \A k \in TraceIdx :
        (rgTrace[k].op \in QuotaListingOps /\ ~rgTrace[k].ok) =>
            /\ \A q \in RegionQuotas : q.ServiceCode # rgTrace[k].svc
            /\ rgRet.err = "nil"

(***************************************************************************)
(* C17  Region-level failure: when the region's configuration cannot be    *)
(* loaded or a page of ListServices fails (or a limiter.Wait of            *)
(* GetServices does), GetQuotasForRegion returns the error and no quotas,  *)
(* and no quota listing, probe or metric request of the region was made.   *)
(***************************************************************************)
C17_RegionFailure ==
    /\ \A k \in TraceIdx :
          (rgTrace[k].op = "ListServices" /\ ~rgTrace[k].ok) =>
              /\ k = Len(rgTrace)
              /\ rgRet = [returned |-> TRUE, quotas |-> <<>>, err |-> "ListServices"]
    /\ rgRet.err # "nil" =>
          /\ rgRet.returned /\ rgRet.quotas = <<>> /\ rgQuotas = <<>>
          /\ rgRet.err \in {"GetRegions", "LoadConfig", "ListServices", "Wait"}
          /\ \A k \in TraceIdx :
                rgTrace[k].op \notin QuotaListingOps \cup {"Probe", "Metric"}
    /\ (\E k \in TraceIdx : rgTrace[k].op \in QuotaListingOps) =>
          \A l \in TraceIdx : rgTrace[l].op = "ListServices" => rgTrace[l].ok

\* the first page of services was listed, the second failed, and the fetch
\* returned the error
C17_Witness ==
    /\ rgRet.returned /\ rgRet.err = "ListServices"
    /\ \E k, l \in TraceIdx :
          /\ k < l
          /\ rgTrace[k] = CallEvent("ListServices", "", "", TRUE)
          /\ rgTrace[l] = CallEvent("ListServices", "", "", FALSE)

(***************************************************************************)
(* C18  Usage-resolution failures are never fatal: after a failed direct   *)
(* probe HasUsageMetrics is false and the metric lookup follows when the   *)
(* definition carries a descriptor; when the lookup fails too (or cannot   *)
(* be made) the quota is emitted with HasUsageMetrics false and Usage 0;   *)
(* the region fetch returns no error.                                      *)
(***************************************************************************)
C18_UsageFailuresNotFatal ==
    /\ rgCur.probe = "err" =>
          /\ rgCur.src # "direct"
          /\ (rgCur.def.UsageMetric # Nil /\ rgCur.metric = "none") <=> rgPc = "metric"
          /\ rgCur.metric \in {"err", "unusable"} =>
                /\ ~rgCur.quota.HasUsageMetrics /\ rgCur.quota.Usage = 0
                /\ rgCur.quota \in RegionQuotas
          /\ rgCur.def.UsageMetric = Nil =>
                /\ ~rgCur.quota.HasUsageMetrics /\ rgCur.quota.Usage = 0
                /\ rgCur.quota \in RegionQuotas
    /\ rgCur.metric = "err" =>
          (rgCur.quota \in RegionQuotas /\ ~rgCur.quota.HasUsageMetrics /\ rgCur.quota.Usage = 0)
    /\ rgCur # NoCur => rgRet.err = "nil"
    /\ \A k \in TraceIdx :
          (rgTrace[k].op \in {"Probe", "Metric"} /\ ~rgTrace[k].ok) => rgRet.err = "nil"

\* the probe of a quota failed, its metric query failed, and the fetch
\* returned the quota without usage and without an error
C18_Witness ==
    /\ rgRet.returned /\ rgRet.err = "nil"
    /\ rgCur.probe = "err" /\ rgCur.metric = "err"
    /\ rgCur.quota \in Range(rgRet.quotas)
    /\ \E k, l \in TraceIdx :
          /\ k < l
          /\ rgTrace[k] = CallEvent("Probe", rgCur.quota.ServiceCode, rgCur.quota.QuotaCode, FALSE)
          /\ rgTrace[l] = CallEvent("Metric", rgCur.quota.ServiceCode, rgCur.quota.QuotaCode, FALSE)

(***************************************************************************)
(* C19  Probe dispatch guard: GetUsageDirectly attempts the probe of a     *)
(* quota exactly when QuotaCodeToServiceMapping has an entry for the quota *)
(* code whose service code is the quota's; otherwise no probe request is   *)
(* made, no error is reported and the quota's Usage and HasUsageMetrics    *)
(* are as they were.                                                       *)
(***************************************************************************)
C19_ProbeGuard ==
    /\ rgCur # NoCur =>
          LET q == rgCur.quota
              hasEntry == \E e \in QuotaCodeToServiceMapping :
                              e[1] = q.QuotaCode /\ e[2] = q.ServiceCode
          IN  /\ rgCur.probe \in {"err", "ok"} <=> hasEntry
              /\ ~hasEntry =>
                    /\ rgCur.probe = "unsupported"
                    /\ rgCur.src # "direct"
                    /\ rgCur.metric # "answered" => (~q.HasUsageMetrics /\ q.Usage = 0)
    /\ \A k \in TraceIdx :
          rgTrace[k].op = "Probe" =>
              <<rgTrace[k].code, rgTrace[k].svc>> \in QuotaCodeToServiceMapping

\* a quota whose code is in the table under another service went through
\* without a probe, after the probe of another quota had been made
C19_Witness ==
    /\ rgCur.probe = "unsupported"
    /\ \E e \in QuotaCodeToServiceMapping :
          e[1] = rgCur.quota.QuotaCode /\ e[2] # rgCur.quota.ServiceCode
    /\ rgCur.quota \in RegionQuotas
    /\ \E k \in TraceIdx : rgTrace[k].op = "Probe"

\* the definitions the listing op delivered for svc: one page of the
\* provider's per request that succeeded
Delivered(op, svc, pages) ==
    LET n == Cardinality({ k \in TraceIdx : rgTrace[k] = CallEvent(op, svc, "", TRUE) })
    IN  Flatten(SubSeq(pages, 1, n))

CodesOf(defs) == { d.QuotaCode[1] : d \in { e \in Range(defs) : e.QuotaCode # Nil } }

(***************************************************************************)
(* C20  Applied overrides default: for the service being processed the     *)
(* fetch emits exactly one quota per quota code found in the pages the     *)
(* default and the applied listing delivered; for a code found in both,    *)
(* Value, Unit, Adjustable, Global and the usage-metric descriptor are     *)
(* those of the applied definition.                                        *)
(***************************************************************************)
C20_AppliedOverridesDefault ==
    (rgPc = "build" /\ rgPending = {}) =>
        LET svc  == CurService.Code
            defs == Delivered("ListAWSDefaultServiceQuotas", svc,
                              rgWorld.quotaPages[svc].default)
            apps == Delivered("ListServiceQuotas", svc, rgWorld.quotaPages[svc].applied)
            codes == CodesOf(defs) \cup CodesOf(apps)
        IN  /\ { q.QuotaCode : q \in Range(rgSvcQuotas) } = codes
            /\ Len(rgSvcQuotas) = Cardinality(codes)
            /\ \A q \in Range(rgSvcQuotas) :
                  /\ q.ServiceCode = svc
                  /\ q.QuotaCode \in CodesOf(apps) =>
                        \E a \in Range(apps) :
                            /\ a.QuotaCode = Ptr(q.QuotaCode)
                            /\ q.Value = (IF a.Value # Nil THEN a.Value[1] ELSE 0)
                            /\ q.Unit = safeString(a.Unit)
                            /\ q.Adjustable = a.Adjustable
                            /\ q.Global = a.GlobalQuota
                            /\ rgMap[q.QuotaCode].UsageMetric = a.UsageMetric

\* ec2 was listed with L-1216C47A in both listings and a second code in the
\* default listing only; both were emitted, the first with the applied value
C20_Witness ==
    /\ rgPc = "build" /\ rgPending = {}
    /\ CurService.Code = "ec2"
    /\ Len(rgSvcQuotas) = 2
    /\ \E q \in Range(rgSvcQuotas) :
          /\ q.QuotaCode = "L-1216C47A"
          /\ q.Value = AppliedRunning.Value[1]
          /\ q.Value # DefRunning.Value[1]
    /\ \E k \in TraceIdx :
          rgTrace[k] = CallEvent("ListAWSDefaultServiceQuotas", "ec2", "", TRUE)
    /\ \E k \in TraceIdx : rgTrace[k] = CallEvent("ListServiceQuotas", "ec2", "", TRUE)

\* the services the provider lists for the region, in page order
ListedServices == Flatten(rgWorld.svcPages)

\* the fetch is past the serviceFilter loop
PastFilter ==
    \/ rgPc \in {"svcBegin", "defWait", "defPage", "appWait", "appPage", "build", "metric"}
    \/ rgPc = "done" /\ rgRet.err = "nil"

\* the service code passes the filter: no filter, or equal but for case
PassesFilter(code) == rgFilter = "" \/ Fold(code) = Fold(rgFilter)

(***************************************************************************)
(* C21  Service filter: with a non-empty serviceFilter the region fetch    *)
(* processes, and lists quotas for, exactly the listed services whose code *)
(* equals the filter but for letter case (none: an empty result and no     *)
(* error); with an empty filter every listed service is processed.         *)
(***************************************************************************)
C21_ServiceFilter ==
    /\ PastFilter =>
          /\ rgServices = SelectSeq(ListedServices, LAMBDA svc : PassesFilter(svc.Code))
          /\ rgFilter = "" => rgServices = ListedServices
    /\ \A k \in TraceIdx :
          rgTrace[k].op \in QuotaListingOps \cup {"Probe", "Metric"} =>
              /\ PassesFilter(rgTrace[k].svc)
              /\ \E i \in DOMAIN ListedServices : ListedServices[i].Code = rgTrace[k].svc
    /\ \A q \in RegionQuotas : PassesFilter(q.ServiceCode)
    /\ (rgRet.returned /\ rgRet.err = "nil") =>
          /\ rgSvcIdx = Len(rgServices) + 1
          /\ (\A i \in DOMAIN ListedServices : ~PassesFilter(ListedServices[i].Code))
                => rgRet.quotas = <<>>

\* with the filter "EC2" and the services ec2 and vpc listed, the fetch
\* returned quotas of ec2 after listing them, and nothing of vpc
C21_Witness ==
    /\ rgFilter = "EC2"
    /\ \E i \in DOMAIN ListedServices : ListedServices[i].Code = "vpc"
    /\ rgRet.returned /\ rgRet.err = "nil" /\ rgRet.quotas # <<>>
    /\ rgServices = <<SvcEC2>>
    /\ \E k \in TraceIdx : rgTrace[k] = CallEvent("ListServiceQuotas", "ec2", "", TRUE)

\* the quota codes of the definitions, in the order of their first
\* occurrence
PageOrder(defs) ==
    LET F[k \in 0..Len(defs)] ==
            IF k = 0 THEN <<>>
            ELSE IF defs[k].QuotaCode = Nil \/ defs[k].QuotaCode[1] \in Range(F[k - 1])
                 THEN F[k - 1]
                 ELSE Append(F[k - 1], defs[k].QuotaCode[1])
    IN  F[Len(defs)]

\* the services of the returned list follow the order of the listing
C27_ServiceOrder ==
    (rgPc = "done" /\ rgRet.err = "nil") =>
        \A i, j \in 1..Len(rgRet.quotas) :
            i < j => \E k, l \in 1..Len(ListedServices) :
                        /\ k <= l
                        /\ ListedServices[k].Code = rgRet.quotas[i].ServiceCode
                        /\ ListedServices[l].Code = rgRet.quotas[j].ServiceCode

(***************************************************************************)
(* C27  Ordering within a region: in the list one region fetch returns the *)
(* services follow the order in which the provider listed them, and the    *)
(* quotas of each service follow the order in which the pages of the       *)
(* default and then the applied listing delivered their codes.             *)
(***************************************************************************)
C27_OrderWithinRegion ==
    /\ C27_ServiceOrder
    /\ (rgPc = "build" /\ rgPending = {}) =>
          LET svc  == CurService.Code
              defs == Delivered("ListAWSDefaultServiceQuotas", svc,
                                rgWorld.quotaPages[svc].default)
              apps == Delivered("ListServiceQuotas", svc, rgWorld.quotaPages[svc].applied)
          IN  [k \in 1..Len(rgSvcQuotas) |-> rgSvcQuotas[k].QuotaCode]
                  = PageOrder(defs \o apps)

\* the statistic the usage is read from
UsageStatistic(recommendation) ==
    IF recommendation # Nil /\ recommendation[1] \in {"Maximum", "Average", "Sum", "Minimum"}
    THEN recommendation[1]
    ELSE "Maximum"

\* the datapoint with the greatest timestamp, the first of them if several
Latest(datapoints) ==
    CHOOSE k \in 1..Len(datapoints) :
        \A j \in 1..Len(datapoints) :
            /\ datapoints[j].Timestamp <= datapoints[k].Timestamp
            /\ j < k => datapoints[j].Timestamp < datapoints[k].Timestamp

(***************************************************************************)
(* C30  Metric lookup result: when GetMetricStatistics answers with at     *)
(* least one datapoint, Usage is the recommended statistic (Maximum when   *)
(* the recommendation is absent, empty or none of Maximum, Average, Sum    *)
(* and Minimum) of the datapoint with the greatest timestamp, 0 if that    *)
(* datapoint does not carry the statistic, and HasUsageMetrics is true;    *)
(* when it answers with no datapoint or fails, HasUsageMetrics stays false *)
(* and Usage stays 0.                                                      *)
(***************************************************************************)
C30_MetricLookupResult ==
    (rgPc = "build" /\ rgSvcQuotas # <<>> /\ rgCur.metric # "none") =>
        LET q == rgCur.quota
            dps == rgCur.datapoints
            stat == UsageStatistic(rgCur.def.UsageMetric[1].MetricStatisticRecommendation)
        IN  /\ (rgCur.metric = "answered" /\ dps # <<>>) =>
                  /\ q.HasUsageMetrics
                  /\ q.Usage = IF dps[Latest(dps)][stat] # Nil
                               THEN dps[Latest(dps)][stat][1] ELSE 0
            /\ (rgCur.metric # "answered" \/ dps = <<>>) =>
                  /\ ~q.HasUsageMetrics
                  /\ q.Usage = 0
            /\ q = rgSvcQuotas[Len(rgSvcQuotas)]

\* the recommendation "Bogus" and an answer of two datapoints, the later one
\* second: Usage is the Maximum of the later one
C30_Witness ==
    /\ rgPc = "build" /\ rgCur.metric = "answered"
    /\ rgCur.def.UsageMetric[1].MetricStatisticRecommendation = Ptr("Bogus")
    /\ Len(rgCur.datapoints) = 2
    /\ rgCur.datapoints[1].Timestamp < rgCur.datapoints[2].Timestamp
    /\ rgCur.quota.HasUsageMetrics
    /\ rgCur.quota.Usage = rgCur.datapoints[2].Maximum[1]
    /\ rgCur.quota.Usage # rgCur.datapoints[1].Maximum[1]

(***************************************************************************)
(*                        THE EXPIRING CACHE                               *)
(***************************************************************************)
NoItems == [k \in {} |-> Nil]

\* Strings the handlers take apart or put together are sequences of tokens:
\* "us-east-1,eu-west-1" is <<"us-east-1", ",", "eu-west-1">>, "" is <<>>.

\* Handler.GetRegions: cacheKey := "regions"
RegionsKey == <<"regions">>

\* Handler.GetServices: cacheKey := "services:" + region
ServicesKey(region) == <<"services:">> \o region

\* Handler.GetQuotas, ExportJSON, ExportHTML:
\* cacheKey := "quotas:" + regionParam + ":" + serviceFilter
QuotasKey(regionParam, serviceFilter) ==
    <<"quotas:">> \o regionParam \o <<":">> \o serviceFilter

\* a Set that leaves an entry that is already there alone
CacheSetKeepsFirst(items, now, ttl, key, value) ==
    [k \in DOMAIN items \cup {key} |->
        IF k \in DOMAIN items THEN items[k] ELSE [Value |-> value, ExpiresAt |-> now + ttl]]

\* a Set that keeps the expiry of the entry it overwrites
CacheSetKeepsExpiry(items, now, ttl, key, value) ==
    [k \in DOMAIN items \cup {key} |->
        IF k = key
        THEN [Value |-> value,
              ExpiresAt |-> IF key \in DOMAIN items THEN items[key].ExpiresAt ELSE now + ttl]
        ELSE items[k]]

\* Cache.Set: c.items[key] = Item{Value: value, ExpiresAt: time.Now().Add(c.ttl)}
CacheSet(items, now, ttl, key, value) ==
    [k \in DOMAIN items \cup {key} |->
        IF k = key THEN [Value |-> value, ExpiresAt |-> now + ttl] ELSE items[k]]

\* an expiry test that already fires at the instant of expiry
ExpiredAtExpiry(now, expiresAt) == now >= expiresAt

\* time.Now().After(item.ExpiresAt)
Expired(now, expiresAt) == now > expiresAt

\* Cache.Get: (value, found); the value is a pointer, nil when not found
CacheGet(items, now, key) ==
    IF key \notin DOMAIN items THEN [found |-> FALSE, value |-> Nil]
    ELSE IF Expired(now, items[key].ExpiresAt) THEN [found |-> FALSE, value |-> Nil]
         ELSE [found |-> TRUE, value |-> Ptr(items[key].Value)]

\* Cache.Delete
CacheDelete(items, key) == [k \in DOMAIN items \ {key} |-> items[k]]

\* a cleanup that already deletes at the instant of expiry
CacheCleanupAtExpiry(items, now) ==
    [k \in { j \in DOMAIN items : now < items[j].ExpiresAt } |-> items[k]]

\* the loop of cleanup: delete the entries whose expiry has passed
CacheCleanup(items, now) ==
    [k \in { j \in DOMAIN items : ~Expired(now, items[j].ExpiresAt) } |-> items[k]]

\* a Clear scoped to the quota entries
CacheClearQuotasOnly(items) ==
    [k \in { j \in DOMAIN items : Head(j) # "quotas:" } |-> items[k]]

\* Cache.Clear: c.items = make(map[string]Item)
CacheClear(items) == NoItems

(***************************************************************************)
(* Callers of the cache and the cleanup goroutine, with Cache.mu           *)
(***************************************************************************)
Clients == {1, 2}
Sweeper == 3

CacheKeys == {RegionsKey, ServicesKey(<<"us-east-1">>), QuotasKey(<<"all">>, <<>>)}
CacheValues == {"v1", "v2"}

CacheOps ==
    { [op |-> "Set", key |-> k, value |-> v] : k \in CacheKeys, v \in CacheValues }
    \cup { [op |-> o, key |-> k, value |-> ""] : o \in {"Get", "Delete"}, k \in CacheKeys }
    \cup { [op |-> "Clear", key |-> <<>>, value |-> ""] }

NoOp == [op |-> "none", key |-> <<>>, value |-> ""]

NoRes == [found |-> FALSE, value |-> Nil, at |-> 0, setAt |-> -1, setValue |-> Nil,
          had |-> {}]

NotSet == [at |-> -1, value |-> Nil]

\* c.mu.Lock() may proceed: no writer and no reader holds the mutex
CanLockAlways(mu) == TRUE

CanLock(mu) == mu.writer = 0 /\ mu.readers = {}

\* an RLock that does not wait for the writer
CanRLockAlways(mu) == TRUE

\* c.mu.RLock() may proceed: no writer holds the mutex
CanRLock(mu) == mu.writer = 0

InitCache ==
    /\ cItems = NoItems
    /\ cNow = 0
    /\ cMu = [writer |-> 0, readers |-> {}]
    /\ cPc = [c \in Clients |-> "idle"]
    /\ cOp = [c \in Clients |-> NoOp]
    /\ cRes = [c \in Clients |-> NoRes]
    /\ swPc = "idle"
    /\ cLive = [k \in CacheKeys |-> NotSet]
    /\ AggIdle
    /\ RegionIdle
    /\ QueryIdle
    /\ LimIdle
    /\ ListIdle

\* time passes
CacheTick ==
    /\ cNow < MaxTime
    /\ cNow' = cNow + 1
    /\ UNCHANGED <<cItems, cMu, cPc, cOp, cRes, swPc, cLive>>
    /\ UNCHANGED notCacheVars

\* Set, Delete, Clear: c.mu.Lock()
CacheLock(c) ==
    /\ cPc[c] = "idle"
    /\ CanLock(cMu)
    /\ \E o \in CacheOps :
        /\ o.op \in {"Set", "Delete", "Clear"}
        /\ cOp' = [cOp EXCEPT ![c] = o]
    /\ cMu' = [cMu EXCEPT !.writer = c]
    /\ cPc' = [cPc EXCEPT ![c] = "body"]
    /\ UNCHANGED <<cItems, cNow, cRes, swPc, cLive>>
    /\ UNCHANGED notCacheVars

\* Get: c.mu.RLock()
CacheRLock(c) ==
    /\ cPc[c] = "idle"
    /\ CanRLock(cMu)
    /\ \E k \in CacheKeys : cOp' = [cOp EXCEPT ![c] = [op |-> "Get", key |-> k, value |-> ""]]
    /\ cMu' = [cMu EXCEPT !.readers = @ \cup {c}]
    /\ cPc' = [cPc EXCEPT ![c] = "body"]
    /\ UNCHANGED <<cItems, cNow, cRes, swPc, cLive>>
    /\ UNCHANGED notCacheVars

\* the body of Set
CacheSetBody(c) ==
    /\ cPc[c] = "body" /\ cOp[c].op = "Set"
    /\ cItems' = CacheSet(cItems, cNow, CacheTTL, cOp[c].key, cOp[c].value)
    /\ cLive' = [cLive EXCEPT ![cOp[c].key] = [at |-> cNow, value |-> Ptr(cOp[c].value)]]
    /\ cRes' = [cRes EXCEPT ![c] = [NoRes EXCEPT !.had = DOMAIN cItems, !.at = cNow,
                                                 !.setAt = cLive[cOp[c].key].at,
                                                 !.setValue = cLive[cOp[c].key].value]]
    /\ cPc' = [cPc EXCEPT ![c] = "unlock"]
    /\ UNCHANGED <<cNow, cMu, cOp, swPc>>
    /\ UNCHANGED notCacheVars

\* a Get that renews the entry it returns and drops the one it finds expired
CacheGetBodyTouches(c) ==
    /\ cPc[c] = "body" /\ cOp[c].op = "Get"
    /\ LET r == CacheGet(cItems, cNow, cOp[c].key) IN
        /\ cRes' = [cRes EXCEPT ![c] = [found |-> r.found, value |-> r.value, at |-> cNow,
                                        setAt |-> cLive[cOp[c].key].at,
                                        setValue |-> cLive[cOp[c].key].value,
                                        had |-> {}]]
        /\ cItems' = IF r.found
                     THEN [cItems EXCEPT ![cOp[c].key].ExpiresAt = cNow + CacheTTL]
                     ELSE CacheDelete(cItems, cOp[c].key)
    /\ cPc' = [cPc EXCEPT ![c] = "unlock"]
    /\ UNCHANGED <<cNow, cMu, cOp, swPc, cLive>>
    /\ UNCHANGED notCacheVars

\* the body of Get
CacheGetBody(c) ==
    /\ cPc[c] = "body" /\ cOp[c].op = "Get"
    /\ LET r == CacheGet(cItems, cNow, cOp[c].key) IN
       cRes' = [cRes EXCEPT ![c] = [found |-> r.found, value |-> r.value, at |-> cNow,
                                      setAt |-> cLive[cOp[c].key].at,
                                      setValue |-> cLive[cOp[c].key].value,
                                      had |-> {}]]
    /\ cPc' = [cPc EXCEPT ![c] = "unlock"]
    /\ UNCHANGED <<cItems, cNow, cMu, cOp, swPc, cLive>>
    /\ UNCHANGED notCacheVars

\* the body of Delete
CacheDeleteBody(c) ==
    /\ cPc[c] = "body" /\ cOp[c].op = "Delete"
    /\ cItems' = CacheDelete(cItems, cOp[c].key)
    /\ cLive' = [cLive EXCEPT ![cOp[c].key] = NotSet]
    /\ cPc' = [cPc EXCEPT ![c] = "unlock"]
    /\ UNCHANGED <<cNow, cMu, cOp, cRes, swPc>>
    /\ UNCHANGED notCacheVars

\* the body of Clear (Handler.Refresh calls it)
CacheClearBody(c) ==
    /\ cPc[c] = "body" /\ cOp[c].op = "Clear"
    /\ cItems' = CacheClear(cItems)
    /\ cLive' = [k \in CacheKeys |-> NotSet]
    /\ cRes' = [cRes EXCEPT ![c] = [NoRes EXCEPT !.had = DOMAIN cItems, !.at = cNow]]
    /\ cPc' = [cPc EXCEPT ![c] = "unlock"]
    /\ UNCHANGED <<cNow, cMu, cOp, swPc>>
    /\ UNCHANGED notCacheVars

\* the deferred c.mu.Unlock() / c.mu.RUnlock(); the call returns
CacheUnlock(c) ==
    /\ cPc[c] = "unlock"
    /\ cMu' = [writer |-> IF cMu.writer = c THEN 0 ELSE cMu.writer,
               readers |-> cMu.readers \ {c}]
    /\ cPc' = [cPc EXCEPT ![c] = "idle"]
    /\ cOp' = [cOp EXCEPT ![c] = NoOp]
    /\ cRes' = [cRes EXCEPT ![c] = NoRes]
    /\ UNCHANGED <<cItems, cNow, swPc, cLive>>
    /\ UNCHANGED notCacheVars

\* cleanup: the ticker fires and c.mu.Lock() is taken
SweepLock ==
    /\ swPc = "idle"
    /\ CanLock(cMu)
    /\ cMu' = [cMu EXCEPT !.writer = Sweeper]
    /\ swPc' = "body"
    /\ UNCHANGED <<cItems, cNow, cPc, cOp, cRes, cLive>>
    /\ UNCHANGED notCacheVars

\* cleanup: now := time.Now() and the delete loop
SweepBody ==
    /\ swPc = "body"
    /\ cItems' = CacheCleanup(cItems, cNow)
    /\ swPc' = "unlock"
    /\ UNCHANGED <<cNow, cMu, cPc, cOp, cRes, cLive>>
    /\ UNCHANGED notCacheVars

\* cleanup: c.mu.Unlock()
SweepUnlock ==
    /\ swPc = "unlock"
    /\ cMu' = [cMu EXCEPT !.writer = 0]
    /\ swPc' = "idle"
    /\ UNCHANGED <<cItems, cNow, cPc, cOp, cRes, cLive>>
    /\ UNCHANGED notCacheVars

NextCache ==
    \/ CacheTick
    \/ \E c \in Clients : CacheLock(c)
    \/ \E c \in Clients : CacheRLock(c)
    \/ \E c \in Clients : CacheSetBody(c)
    \/ \E c \in Clients : CacheGetBody(c)
    \/ \E c \in Clients : CacheDeleteBody(c)
    \/ \E c \in Clients : CacheClearBody(c)
    \/ \E c \in Clients : CacheUnlock(c)
    \/ SweepLock
    \/ SweepBody
    \/ SweepUnlock

SpecCache == InitCache /\ [][NextCache]_vars

\* the steps of a caller that is in Get leave the map as it is
C39_GetStep(c) ==
    (cOp[c].op = "Get" /\ cPc'[c] # cPc[c] /\ cOp'[c] = cOp[c]) => cItems' = cItems

\* what Get finds has not outlived the expiry its Set gave it
C39_NotKeptAlive ==
    \A c \in Clients :
        (cPc[c] = "unlock" /\ cOp[c].op = "Get" /\ cRes[c].found) =>
            /\ cRes[c].setAt >= 0
            /\ cRes[c].at <= cRes[c].setAt + CacheTTL
            /\ cItems[cOp[c].key].ExpiresAt = cRes[c].setAt + CacheTTL

\* C39: Get has no side effects: it never modifies the cache; it neither
\* removes an expired entry nor extends the expiry of the entry it returns,
\* so repeated reads never keep an entry alive past its original expiry.
C39_GetReadOnly == []C39_NotKeptAlive /\ [][\A c \in Clients : C39_GetStep(c)]_vars

\* a Get has just missed an expired entry, which is still in the map
C39_Witness ==
    \E c \in Clients :
        /\ cPc[c] = "unlock" /\ cOp[c].op = "Get" /\ ~cRes[c].found
        /\ cOp[c].key \in DOMAIN cItems
        /\ Expired(cNow, cItems[cOp[c].key].ExpiresAt)

\* a Get has just returned an entry later than it was set, and the entry
\* still expires when its Set said
C39_HitWitness ==
    \E c \in Clients :
        /\ cPc[c] = "unlock" /\ cOp[c].op = "Get" /\ cRes[c].found
        /\ cRes[c].at > cRes[c].setAt
        /\ cItems[cOp[c].key].ExpiresAt = cRes[c].setAt + CacheTTL

(***************************************************************************)
(* C4  Cache TTL (as claimed): a value stored by Set at time T0 with TTL D *)
(* is returned by Get at every time < T0 + D and not found at every time   *)
(* >= T0 + D, swept or not.                                                *)
(***************************************************************************)
C4_TTLAsClaimed ==
    \A c \in Clients :
        (cPc[c] = "unlock" /\ cOp[c].op = "Get" /\ cRes[c].setAt >= 0) =>
            /\ cRes[c].found <=> cRes[c].at < cRes[c].setAt + CacheTTL
            /\ cRes[c].found => cRes[c].value = cRes[c].setValue

(***************************************************************************)
(* C4  Cache TTL (amended): a value stored by Set at time T0 with TTL D is *)
(* returned by Get at every time <= T0 + D and not found at every time     *)
(* > T0 + D, swept or not.                                                 *)
(***************************************************************************)
C4_TTL ==
    \A c \in Clients :
        (cPc[c] = "unlock" /\ cOp[c].op = "Get" /\ cRes[c].setAt >= 0) =>
            /\ cRes[c].found <=> cRes[c].at <= cRes[c].setAt + CacheTTL
            /\ cRes[c].found => cRes[c].value = cRes[c].setValue

\* a Get at the instant of expiry, of an entry the sweep has not removed
C4_Witness ==
    \E c \in Clients :
        /\ cPc[c] = "unlock" /\ cOp[c].op = "Get"
        /\ cRes[c].setAt >= 0
        /\ cRes[c].at = cRes[c].setAt + CacheTTL
        /\ cRes[c].found
        /\ cOp[c].key \in DOMAIN cItems

(***************************************************************************)
(* C9  Refresh clears the whole cache atomically and unconditionally: when *)
(* Clear has run, Get finds no key, whatever was stored under it; and no   *)
(* reader holds the mutex while a writer is inside the cache, so no Get    *)
(* sees a partly cleared map.                                              *)
(***************************************************************************)
C9_ClearAtomic ==
    /\ \A c \in Clients :
          (cPc[c] = "unlock" /\ cOp[c].op = "Clear") =>
              /\ cItems = NoItems
              /\ \A k \in CacheKeys : ~CacheGet(cItems, cNow, k).found
    /\ cMu.writer # 0 => cMu.readers = {}
    /\ \A c \in Clients : (cPc[c] # "idle" /\ cOp[c].op = "Get") => cMu.writer = 0

\* Clear has just run, under the write lock, on a cache that held the
\* regions entry and a quota entry, neither of them expired
C9_Witness ==
    \E c \in Clients :
        /\ cPc[c] = "unlock" /\ cOp[c].op = "Clear"
        /\ cMu.writer = c
        /\ cRes[c].had = CacheKeys
        /\ cRes[c].at = cNow
        /\ cNow < CacheTTL
        /\ cItems = NoItems

\* the callers and the sweeper between taking Cache.mu and releasing it
InCache == { c \in Clients : cPc[c] \in {"body", "unlock"} }
               \cup (IF swPc \in {"body", "unlock"} THEN {Sweeper} ELSE {})

\* those of them that write: Set, Delete, Clear and the sweep
WritersInCache == { c \in InCache : c = Sweeper \/ cOp[c].op \in {"Set", "Delete", "Clear"} }

(***************************************************************************)
(* C25  Cache mutual exclusion: while Set, Delete, Clear or the sweep is   *)
(* between its Lock and its Unlock, no other cache operation is between    *)
(* its own lock and unlock; Gets are not excluded by one another.          *)
(***************************************************************************)
C25_MutualExclusion ==
    \A w \in WritersInCache : InCache = {w}

\* two Gets read the map at the same time; the sweeper is kept out
C25_Witness ==
    /\ \A c \in Clients : cPc[c] = "body" /\ cOp[c].op = "Get"
    /\ cItems # NoItems
    /\ ~ENABLED SweepLock

\* the map as Set, Delete and Clear alone have left it, never swept
Unswept ==
    [k \in { j \in CacheKeys : cLive[j] # NotSet } |->
        [Value |-> cLive[k].value[1], ExpiresAt |-> cLive[k].at + CacheTTL]]

(***************************************************************************)
(* C26  The sweep is invisible to readers: the sweep removes no entry a    *)
(* Get would still return, so under every interleaving of Set, Get,        *)
(* Delete, Clear, clock ticks and sweeps a Get of any key returns what it  *)
(* returns from the map that was never swept.                              *)
(***************************************************************************)
C26_SweepInvisible ==
    /\ \A k \in CacheKeys : CacheGet(cItems, cNow, k) = CacheGet(Unswept, cNow, k)
    /\ \A k \in DOMAIN cItems : k \in DOMAIN Unswept /\ cItems[k] = Unswept[k]
    /\ \A k \in DOMAIN Unswept : cNow <= Unswept[k].ExpiresAt => k \in DOMAIN cItems
    /\ \A c \in Clients :
          (cPc[c] = "unlock" /\ cOp[c].op = "Get") =>
              /\ cRes[c].found <=>
                    (cRes[c].setAt >= 0 /\ cRes[c].at <= cRes[c].setAt + CacheTTL)
              /\ cRes[c].value = IF cRes[c].found THEN cRes[c].setValue ELSE Nil

\* the sweep has removed an expired entry while another entry, still fresh,
\* stayed, and a Get of the removed key returned not found
C26_Witness ==
    \E c \in Clients :
        /\ cPc[c] = "unlock" /\ cOp[c].op = "Get"
        /\ cOp[c].key \in DOMAIN Unswept /\ cOp[c].key \notin DOMAIN cItems
        /\ ~cRes[c].found
        /\ \E k \in DOMAIN cItems : cNow <= cItems[k].ExpiresAt

\* the step in which caller c runs the body of Set(k, v)
C29_SetStep(c) ==
    (cPc[c] = "body" /\ cOp[c].op = "Set" /\ cPc'[c] = "unlock") =>
        /\ DOMAIN cItems' = DOMAIN cItems \cup {cOp[c].key}
        /\ cItems'[cOp[c].key] = [Value |-> cOp[c].value, ExpiresAt |-> cNow + CacheTTL]
        /\ \A k \in DOMAIN cItems \ {cOp[c].key} : cItems'[k] = cItems[k]

(***************************************************************************)
(* C29  Set overwrites: Set(k, v) replaces any entry under k, fresh or     *)
(* expired, by value v with expiry now + TTL, whatever expiry the entry    *)
(* had, and leaves the value and expiry of every other key as they were.   *)
(***************************************************************************)
C29_SetOverwrites == [][\A c \in Clients : C29_SetStep(c)]_vars

\* Set has just replaced an expired entry holding another value, next to
\* an entry of another key that keeps its earlier expiry
C29_Witness ==
    \E c \in Clients :
        /\ cPc[c] = "unlock" /\ cOp[c].op = "Set"
        /\ cOp[c].key \in cRes[c].had
        /\ cRes[c].setAt >= 0 /\ cRes[c].at > cRes[c].setAt + CacheTTL
        /\ cRes[c].setValue # Ptr(cOp[c].value)
        /\ cItems[cOp[c].key] = [Value |-> cOp[c].value, ExpiresAt |-> cRes[c].at + CacheTTL]
        /\ \E k \in DOMAIN cItems : k # cOp[c].key /\ cItems[k].ExpiresAt < cRes[c].at + CacheTTL

(***************************************************************************)
(*              THE HANDLERS: GetQuotas, ExportJSON, Refresh               *)
(***************************************************************************)
Reqs == {1, 2}

\* strings.ToLower
ToLower(str) == [i \in DOMAIN str |-> Fold(str[i])]

\* strings.Contains
Contains(str, sub) ==
    \E i \in 0..(Len(str) - Len(sub)) : SubSeq(str, i + 1, i + Len(sub)) = sub

RECURSIVE SplitFrom(_, _, _)
SplitFrom(str, cur, acc) ==
    IF str = <<>> THEN Append(acc, cur)
    ELSE IF Head(str) = "," THEN SplitFrom(Tail(str), <<>>, Append(acc, cur))
         ELSE SplitFrom(Tail(str), Append(cur, Head(str)), acc)

\* strings.Split(regionParam, ",")
Split(str) == SplitFrom(str, <<>>, <<>>)

\* a filter that looks at the quota name alone
SearchMatchesNameOnly(q, lowered) == Contains(ToLower(q.QuotaName), lowered)

\* the search filter of GetQuotas keeps q
SearchMatches(q, lowered) ==
    \/ Contains(ToLower(q.QuotaName), lowered)
    \/ Contains(ToLower(q.ServiceName), lowered)
    \/ Contains(ToLower(q.ServiceCode), lowered)

\* GetQuotas: if search != "" { ... quotas = filtered }
SearchFilter(quotas, search) ==
    IF search # <<>>
    THEN SelectSeq(quotas, LAMBDA q : SearchMatches(q, ToLower(search)))
    ELSE quotas

\* what the provider holds
QEC2(region) ==
    Quota(region, <<"ec2">>, <<"Amazon ", "EC2">>, <<"Running On-Demand instances">>,
          <<"L-1216C47A">>, 5, "None", TRUE, FALSE)

QVPC(region) ==
    Quota(region, <<"vpc">>, <<"Amazon ", "VPC">>, <<"Internet gateways per Region">>,
          <<"L-A4707A72">>, 5, "None", TRUE, FALSE)

RegionCatalogue(region) ==
    IF region = <<"us-east-1">> THEN <<QEC2(region), QVPC(region)>>
    ELSE IF region = <<"eu-west-1">> THEN <<QEC2(region)>>
    ELSE <<>>

\* what GetQuotasForRegion returns when it succeeds: the quotas of the
\* services whose code equals the filter, ignoring case
ServiceQuotas(region, filter) ==
    IF filter # <<>>
    THEN SelectSeq(RegionCatalogue(region), LAMBDA q : ToLower(q.ServiceCode) = ToLower(filter))
    ELSE RegionCatalogue(region)

\* the regions whose fetch fails during one aggregation: none, or all
FailureSets(n) == { {}, 1..n }

\* the same with a failure of the first region alone (be it for the
\* provider or for a request cancelled on the way)
PartialFailureSets(n) == { f \in { {}, {1}, 1..n } : f \subseteq 1..n }

\* what GetQuotasForAllRegions can return: the regions that fail contribute
\* nothing, the others their quotas; the error is always nil
AggResults(regionList, filter) ==
    { deduplicateGlobalQuotas(Flatten([i \in 1..Len(regionList) |->
            IF i \in failed THEN <<>> ELSE ServiceQuotas(regionList[i], filter)]))
      : failed \in FailureSets(Len(regionList)) }

\* a region task that hands its fetch error to the errgroup
TaskReturnPropagates(failed) == IF failed THEN "region failed" ELSE "nil"

\* what the function given to g.Go returns: nil after a failed fetch (the
\* warning is recorded) and nil after a successful one
TaskReturn(failed) == "nil"

\* g.Wait(): the first non-nil error a task returned, else nil
GroupWait(n, failed) ==
    IF \E i \in 1..n : TaskReturn(i \in failed) # "nil"
    THEN TaskReturn(TRUE) ELSE "nil"

\* GetQuotasForAllRegions: (quotas, err) for each set of failing regions
AggOutcomesOver(regionList, filter, failures) ==
    { [err |-> GroupWait(Len(regionList), failed), failed |-> failed,
       quotas |-> deduplicateGlobalQuotas(Flatten([i \in 1..Len(regionList) |->
                     IF i \in failed THEN <<>> ELSE ServiceQuotas(regionList[i], filter)]))]
      : failed \in failures }

AggOutcomes(regionList, filter) ==
    AggOutcomesOver(regionList, filter, FailureSets(Len(regionList)))

\* the regions DescribeRegions reports as enabled
EnabledRegions == << <<"us-east-1">>, <<"eu-west-1">> >>

\* aws.GetRegions: ([]model.Region, error)
GetRegionsOutcomes ==
    { [err |-> FALSE, regions |-> EnabledRegions], [err |-> TRUE, regions |-> <<>>] }

\* regionParam == "" || regionParam == "all"
AllRegionsSelected(regionParam) == regionParam = <<>> \/ regionParam = <<"all">>

QueryParams ==
    { [region |-> <<"all">>, service |-> <<>>],
      [region |-> <<"us-east-1", ",", "eu-west-1">>, service |-> <<"EC2">>] }

SearchTerms == { <<>>, <<"vpc">> }

Requests ==
    { [kind |-> "quotas", region |-> p.region, service |-> p.service, search |-> t]
        : p \in QueryParams, t \in SearchTerms }
    \cup { [kind |-> k, region |-> p.region, service |-> p.service, search |-> <<>>]
        : k \in {"export", "report"}, p \in QueryParams }
    \cup { [kind |-> "refresh", region |-> <<>>, service |-> <<>>, search |-> <<>>] }

NoReq == [kind |-> "none", region |-> <<>>, service |-> <<>>, search |-> <<>>]

NoResp == [status |-> 0, quotas |-> <<>>, total |-> 0, fromCache |-> FALSE]

NoLookup == [found |-> FALSE, value |-> Nil]

NoStored == [key |-> <<>>, value |-> Nil]

Event(op, key) == [op |-> op, key |-> key]

\* a handler that aggregates whatever the cache lookup found
AfterLookupAlwaysFetch(found) == "aggregate"

\* GetQuotas: if cached, ok := h.cache.Get(cacheKey); ok { ... } else { ... }
AfterLookup(found) == IF found THEN "done" ELSE "aggregate"

\* a handler that caches the list the search filter left
StoredValueFiltered(quotas, search) == SearchFilter(quotas, search)

\* GetQuotas: h.cache.Set(cacheKey, quotas), before the search filter runs
StoredValue(quotas, search) == quotas

ReqKey(r) == QuotasKey(qReq[r].region, qReq[r].service)

\* GetQuotas: the regions the selector stands for when GetRegions succeeds
ResolvedRegions(regionParam) ==
    IF AllRegionsSelected(regionParam) THEN EnabledRegions ELSE Split(regionParam)

InitQuery ==
    /\ qPc = [r \in Reqs |-> "idle"]
    /\ qReq = [r \in Reqs |-> NoReq]
    /\ qRegions = [r \in Reqs |-> <<>>]
    /\ qQuotas = [r \in Reqs |-> <<>>]
    /\ qFromCache = [r \in Reqs |-> FALSE]
    /\ qResp = [r \in Reqs |-> NoResp]
    /\ qLog = [r \in Reqs |-> <<>>]
    /\ qFresh = [r \in Reqs |-> NoLookup]
    /\ qAgg = [r \in Reqs |-> Nil]
    /\ qStored = [r \in Reqs |-> NoStored]
    /\ qCount = 0
    /\ qCleared = [r \in Reqs |-> FALSE]
    /\ qFailed = [r \in Reqs |-> {}]
    /\ cItems = NoItems
    /\ cNow = 0
    /\ CacheCallersIdle
    /\ AggIdle
    /\ RegionIdle
    /\ LimIdle
    /\ ListIdle

\* a request arrives and gin routes it
\* a request arrives: one of requests, with its parameters
QStartWith(r, requests) ==
    /\ qPc[r] = "idle"
    /\ qCount < MaxRequests
    /\ qCount' = qCount + 1
    /\ \E req \in requests :
        /\ qReq' = [qReq EXCEPT ![r] = req]
        /\ qPc' = [qPc EXCEPT ![r] =
                     CASE req.kind = "quotas" -> "resolve"
                       [] req.kind = "export" -> "export"
                       [] req.kind = "report" -> "report"
                       [] OTHER -> "refresh"]
    /\ UNCHANGED <<qRegions, qQuotas, qFromCache, qResp, qLog, qFresh, qAgg, qStored, qCleared, qFailed>>
    /\ UNCHANGED <<cItems, cNow>>
    /\ UNCHANGED notQueryVars

QStart(r) == QStartWith(r, Requests)

\* GetQuotas: the region list, from aws.GetRegions or from the selector
QResolve(r) ==
    /\ qPc[r] = "resolve"
    /\ IF AllRegionsSelected(qReq[r].region)
       THEN \E o \in GetRegionsOutcomes :
              /\ qLog' = [qLog EXCEPT ![r] = Append(@, Event("GetRegions", <<>>))]
              /\ IF o.err
                 THEN /\ qResp' = [qResp EXCEPT ![r] = ErrorResponse(500)]
                      /\ qFresh' = [qFresh EXCEPT ![r] = CacheGet(cItems, cNow, ReqKey(r))]
                      /\ qPc' = [qPc EXCEPT ![r] = "done"]
                      /\ UNCHANGED qRegions
                 ELSE /\ qRegions' = [qRegions EXCEPT ![r] = o.regions]
                      /\ qPc' = [qPc EXCEPT ![r] = "lookup"]
                      /\ UNCHANGED <<qResp, qFresh>>
       ELSE /\ qLog' = [qLog EXCEPT ![r] = Append(@, Event("Split", <<>>))]
            /\ qRegions' = [qRegions EXCEPT ![r] = Split(qReq[r].region)]
            /\ qPc' = [qPc EXCEPT ![r] = "lookup"]
            /\ UNCHANGED <<qResp, qFresh>>
    /\ UNCHANGED <<qReq, qQuotas, qFromCache, qAgg, qStored>>
    /\ UNCHANGED <<cItems, cNow>>
    /\ UNCHANGED <<qCount, qCleared, qFailed>>
    /\ UNCHANGED notQueryVars

\* GetQuotas: h.cache.Get(cacheKey); on a hit, the search filter and the
\* response follow
QLookup(r) ==
    /\ qPc[r] = "lookup"
    /\ LET g == CacheGet(cItems, cNow, ReqKey(r)) IN
        /\ qFresh' = [qFresh EXCEPT ![r] = g]
        /\ qLog' = [qLog EXCEPT ![r] = Append(@, Event("Get", ReqKey(r)))]
        /\ IF g.found
           THEN /\ qQuotas' = [qQuotas EXCEPT ![r] = g.value[1]]
                /\ qFromCache' = [qFromCache EXCEPT ![r] = TRUE]
                /\ qResp' = [qResp EXCEPT ![r] =
                               QuotaResponse(SearchFilter(g.value[1], qReq[r].search), TRUE)]
           ELSE UNCHANGED <<qQuotas, qFromCache, qResp>>
        /\ qPc' = [qPc EXCEPT ![r] = AfterLookup(g.found)]
    /\ UNCHANGED <<qReq, qRegions, qAgg, qStored>>
    /\ UNCHANGED <<cItems, cNow>>
    /\ UNCHANGED <<qCount, qCleared, qFailed>>
    /\ UNCHANGED notQueryVars

\* GetQuotas: h.fetcher.GetQuotasForAllRegions(ctx, regions, serviceFilter)
QAggregateOver(r, outcomes) ==
    /\ qPc[r] = "aggregate"
    /\ \E o \in outcomes :
        /\ IF o.err # "nil"
           THEN /\ qResp' = [qResp EXCEPT ![r] = ErrorResponse(500)]
                /\ qPc' = [qPc EXCEPT ![r] = "done"]
                /\ UNCHANGED <<qQuotas, qAgg>>
           ELSE /\ qQuotas' = [qQuotas EXCEPT ![r] = o.quotas]
                /\ qAgg' = [qAgg EXCEPT ![r] = Ptr(o.quotas)]
                /\ qPc' = [qPc EXCEPT ![r] = "store"]
                /\ UNCHANGED qResp
        /\ qFailed' = [qFailed EXCEPT ![r] = o.failed]
    /\ qLog' = [qLog EXCEPT ![r] = Append(@, Event("Aggregate", <<>>))]
    /\ UNCHANGED <<qReq, qRegions, qFromCache, qFresh, qStored>>
    /\ UNCHANGED <<cItems, cNow>>
    /\ UNCHANGED <<qCount, qCleared>>
    /\ UNCHANGED notQueryVars

QAggregate(r) == QAggregateOver(r, AggOutcomes(qRegions[r], qReq[r].service))

\* a handler that drops its result when the cache was cleared after its miss
QStoreUnlessRefreshed(r) ==
    /\ qPc[r] = "store"
    /\ LET v == StoredValue(qQuotas[r], qReq[r].search) IN
        IF qCleared[r]
        THEN UNCHANGED <<cItems, qStored>>
        ELSE /\ cItems' = CacheSet(cItems, cNow, CacheTTL, ReqKey(r), v)
             /\ qStored' = [qStored EXCEPT ![r] = [key |-> ReqKey(r), value |-> Ptr(v)]]
    /\ qLog' = [qLog EXCEPT ![r] = Append(@, Event("Set", ReqKey(r)))]
    /\ qResp' = [qResp EXCEPT ![r] =
                   QuotaResponse(SearchFilter(qQuotas[r], qReq[r].search), qFromCache[r])]
    /\ qPc' = [qPc EXCEPT ![r] = "done"]
    /\ UNCHANGED <<qReq, qRegions, qQuotas, qFromCache, qFresh, qAgg>>
    /\ UNCHANGED cNow
    /\ UNCHANGED <<qCount, qCleared, qFailed>>
    /\ UNCHANGED notQueryVars

\* a handler that caches a result only when it holds quotas
QStoreUnlessEmpty(r) ==
    /\ qPc[r] = "store"
    /\ LET v == StoredValue(qQuotas[r], qReq[r].search) IN
        IF v = <<>>
        THEN UNCHANGED <<cItems, qStored>>
        ELSE /\ cItems' = CacheSet(cItems, cNow, CacheTTL, ReqKey(r), v)
             /\ qStored' = [qStored EXCEPT ![r] = [key |-> ReqKey(r), value |-> Ptr(v)]]
    /\ qLog' = [qLog EXCEPT ![r] = Append(@, Event("Set", ReqKey(r)))]
    /\ qResp' = [qResp EXCEPT ![r] =
                   QuotaResponse(SearchFilter(qQuotas[r], qReq[r].search), qFromCache[r])]
    /\ qPc' = [qPc EXCEPT ![r] = "done"]
    /\ UNCHANGED <<qReq, qRegions, qQuotas, qFromCache, qFresh, qAgg>>
    /\ UNCHANGED cNow
    /\ UNCHANGED <<qCount, qCleared, qFailed>>
    /\ UNCHANGED notQueryVars

\* GetQuotas: h.cache.Set(cacheKey, quotas), then the search filter and the
\* response
QStore(r) ==
    /\ qPc[r] = "store"
    /\ LET v == StoredValue(qQuotas[r], qReq[r].search) IN
        /\ cItems' = CacheSet(cItems, cNow, CacheTTL, ReqKey(r), v)
        /\ qStored' = [qStored EXCEPT ![r] = [key |-> ReqKey(r), value |-> Ptr(v)]]
    /\ qLog' = [qLog EXCEPT ![r] = Append(@, Event("Set", ReqKey(r)))]
    /\ qResp' = [qResp EXCEPT ![r] =
                   QuotaResponse(SearchFilter(qQuotas[r], qReq[r].search), qFromCache[r])]
    /\ qPc' = [qPc EXCEPT ![r] = "done"]
    /\ UNCHANGED <<qReq, qRegions, qQuotas, qFromCache, qFresh, qAgg>>
    /\ UNCHANGED cNow
    /\ UNCHANGED <<qCount, qCleared, qFailed>>
    /\ UNCHANGED notQueryVars

\* one <tr> of the report: Region, ServiceName, QuotaName, Value printed
\* with %.0f (the values of the catalogue are whole numbers), Unit, Yes or No
ReportRow(q) ==
    <<q.Region, q.ServiceName, q.QuotaName, q.Value, q.Unit,
      IF q.Adjustable THEN "Yes" ELSE "No">>

\* generateHTMLReport: the "Total quotas" line and the rows of the table
generateHTMLReport(quotas) ==
    [total |-> Len(quotas), rows |-> [k \in 1..Len(quotas) |-> ReportRow(quotas[k])]]

\* c.String(status, text)
StringResponse(status, text) ==
    [status |-> status, quotas |-> <<>>, total |-> 0, fromCache |-> FALSE, text |-> text]

\* an export that answers a miss with an empty list
ExportAnswerEmptyOnMiss(g) ==
    IF g.found THEN QuotaResponse(g.value[1], TRUE) ELSE QuotaResponse(<<>>, TRUE)

\* ExportJSON: what it writes after h.cache.Get(cacheKey)
ExportAnswer(g) ==
    IF g.found THEN QuotaResponse(g.value[1], TRUE) ELSE ErrorResponse(400)

\* ExportHTML: what it writes after h.cache.Get(cacheKey)
ReportAnswer(g) ==
    IF g.found
    THEN StringResponse(200, generateHTMLReport(g.value[1]))
    ELSE StringResponse(400, "No data available. Please fetch quotas first.")

\* ExportJSON
QExport(r) ==
    /\ qPc[r] = "export"
    /\ LET g == CacheGet(cItems, cNow, ReqKey(r)) IN
        /\ qFresh' = [qFresh EXCEPT ![r] = g]
        /\ qLog' = [qLog EXCEPT ![r] = Append(@, Event("Get", ReqKey(r)))]
        /\ qResp' = [qResp EXCEPT ![r] = ExportAnswer(g)]
        /\ IF g.found
           THEN qQuotas' = [qQuotas EXCEPT ![r] = g.value[1]]
           ELSE UNCHANGED qQuotas
    /\ qPc' = [qPc EXCEPT ![r] = "done"]
    /\ UNCHANGED <<qReq, qRegions, qFromCache, qAgg, qStored>>
    /\ UNCHANGED <<cItems, cNow>>
    /\ UNCHANGED <<qCount, qCleared, qFailed>>
    /\ UNCHANGED notQueryVars

\* ExportHTML
QExportHTML(r) ==
    /\ qPc[r] = "report"
    /\ LET g == CacheGet(cItems, cNow, ReqKey(r)) IN
        /\ qFresh' = [qFresh EXCEPT ![r] = g]
        /\ qLog' = [qLog EXCEPT ![r] = Append(@, Event("Get", ReqKey(r)))]
        /\ qResp' = [qResp EXCEPT ![r] = ReportAnswer(g)]
        /\ IF g.found
           THEN qQuotas' = [qQuotas EXCEPT ![r] = g.value[1]]
           ELSE UNCHANGED qQuotas
    /\ qPc' = [qPc EXCEPT ![r] = "done"]
    /\ UNCHANGED <<qReq, qRegions, qFromCache, qAgg, qStored>>
    /\ UNCHANGED <<cItems, cNow>>
    /\ UNCHANGED <<qCount, qCleared, qFailed>>
    /\ UNCHANGED notQueryVars

\* Refresh
QRefresh(r) ==
    /\ qPc[r] = "refresh"
    /\ cItems' = CacheClear(cItems)
    /\ qLog' = [qLog EXCEPT ![r] = Append(@, Event("Clear", <<>>))]
    /\ qResp' = [qResp EXCEPT ![r] = [NoResp EXCEPT !.status = 200]]
    /\ qPc' = [qPc EXCEPT ![r] = "done"]
    /\ qCleared' = [q \in Reqs |-> qCleared[q] \/ qPc[q] \in {"aggregate", "store"}]
    /\ UNCHANGED <<qReq, qRegions, qQuotas, qFromCache, qFresh, qAgg, qStored>>
    /\ UNCHANGED cNow
    /\ UNCHANGED <<qCount, qFailed>>
    /\ UNCHANGED notQueryVars

\* the handler returns
QFinish(r) ==
    /\ qPc[r] = "done"
    /\ qPc' = [qPc EXCEPT ![r] = "idle"]
    /\ qReq' = [qReq EXCEPT ![r] = NoReq]
    /\ qRegions' = [qRegions EXCEPT ![r] = <<>>]
    /\ qQuotas' = [qQuotas EXCEPT ![r] = <<>>]
    /\ qFromCache' = [qFromCache EXCEPT ![r] = FALSE]
    /\ qResp' = [qResp EXCEPT ![r] = NoResp]
    /\ qLog' = [qLog EXCEPT ![r] = <<>>]
    /\ qFresh' = [qFresh EXCEPT ![r] = NoLookup]
    /\ qAgg' = [qAgg EXCEPT ![r] = Nil]
    /\ qStored' = [qStored EXCEPT ![r] = NoStored]
    /\ qCleared' = [qCleared EXCEPT ![r] = FALSE]
    /\ qFailed' = [qFailed EXCEPT ![r] = {}]
    /\ UNCHANGED <<cItems, cNow>>
    /\ UNCHANGED qCount
    /\ UNCHANGED notQueryVars

\* time passes
QTick ==
    /\ cNow < MaxTime
    /\ cNow' = cNow + 1
    /\ UNCHANGED cItems
    /\ UNCHANGED queryVars
    /\ UNCHANGED notQueryVars

\* the cleanup goroutine of the cache runs
QSweep ==
    /\ cItems' = CacheCleanup(cItems, cNow)
    /\ UNCHANGED cNow
    /\ UNCHANGED queryVars
    /\ UNCHANGED notQueryVars

NextQuery ==
    \/ \E r \in Reqs : QStart(r)
    \/ \E r \in Reqs : QResolve(r)
    \/ \E r \in Reqs : QLookup(r)
    \/ \E r \in Reqs : QAggregate(r)
    \/ \E r \in Reqs : QStore(r)
    \/ \E r \in Reqs : QExport(r)
    \/ \E r \in Reqs : QExportHTML(r)
    \/ \E r \in Reqs : QRefresh(r)
    \/ \E r \in Reqs : QFinish(r)
    \/ QTick
    \/ QSweep

SpecQuery == InitQuery /\ [][NextQuery]_vars

\* ---- queries whose aggregation can lose a part of the regions ----

DegradedRequests ==
    { [kind |-> "quotas", region |-> p.region, service |-> p.service, search |-> <<>>]
        : p \in QueryParams }

DStart(r) == QStartWith(r, DegradedRequests)

DAggregate(r) ==
    QAggregateOver(r, AggOutcomesOver(qRegions[r], qReq[r].service,
                                      PartialFailureSets(Len(qRegions[r]))))

NextDegraded ==
    \/ \E r \in Reqs : DStart(r)
    \/ \E r \in Reqs : QResolve(r)
    \/ \E r \in Reqs : QLookup(r)
    \/ \E r \in Reqs : DAggregate(r)
    \/ \E r \in Reqs : QStore(r)
    \/ \E r \in Reqs : QFinish(r)
    \/ QTick
    \/ QSweep

\* GetQuotas over the cache, with regions that fail one by one
SpecDegraded == InitQuery /\ [][NextDegraded]_vars

\* ---- the cache key as a function of the two query parameters ----

\* parameters with a colon in them: the region list "us-east-1,eu-west-1:ec2"
\* with no service filter, and the region list "us-east-1,eu-west-1" with
\* the service filter "ec2:"
KeyParams ==
    { [region |-> <<"us-east-1", ",", "eu-west-1", ":", "ec2">>, service |-> <<>>],
      [region |-> <<"us-east-1", ",", "eu-west-1">>, service |-> <<"ec2", ":">>] }

KeyRequests ==
    { [kind |-> k, region |-> p.region, service |-> p.service, search |-> <<>>]
        : k \in {"quotas", "export"}, p \in KeyParams }

KStart(r) == QStartWith(r, KeyRequests)

NextKeys ==
    \/ \E r \in Reqs : KStart(r)
    \/ \E r \in Reqs : QResolve(r)
    \/ \E r \in Reqs : QLookup(r)
    \/ \E r \in Reqs : QAggregate(r)
    \/ \E r \in Reqs : QStore(r)
    \/ \E r \in Reqs : QExport(r)

\* the handlers up to their response, for requests drawn from KeyRequests
SpecKeys == InitQuery /\ [][NextKeys]_vars

\* the (regionSelector, serviceFilter) pair of a request
ParamPair(r) == <<qReq[r].region, qReq[r].service>>

\* requests with different pairs have different keys
C36_DistinctKeys ==
    \A a \in Reqs, b \in Reqs :
        (qPc[a] # "idle" /\ qPc[b] # "idle" /\ ParamPair(a) # ParamPair(b)) =>
            ReqKey(a) # ReqKey(b)

\* a request that finds an entry finds one that a request with its own
\* pair has stored
C36_OwnEntry ==
    \A b \in Reqs : (qPc[b] # "idle" /\ qFresh[b].found) =>
        \E a \in Reqs \ {b} :
            /\ qStored[a] = [key |-> ReqKey(b), value |-> qFresh[b].value]
            /\ ParamPair(a) = ParamPair(b)

\* C36: cache keys are injective: two queries with different
\* (regionSelector, serviceFilter) pairs never share a cache key, so a query
\* is never answered from an entry stored for a different pair.
C36_KeysInjective == C36_DistinctKeys /\ C36_OwnEntry

\* the calls a request made, in order
Ops(r) == [i \in DOMAIN qLog[r] |-> qLog[r][i].op]

QuotasDone(r) == qPc[r] = "done" /\ qReq[r].kind = "quotas"

C8_SearchNeverCached ==
    /\ \A r \in Reqs : \A i \in DOMAIN qLog[r] :
          qLog[r][i].op \in {"Get", "Set"} =>
              qLog[r][i].key = QuotasKey(qReq[r].region, qReq[r].service)
    /\ \A r \in Reqs : qStored[r] # NoStored =>
          qStored[r] = [key |-> ReqKey(r), value |-> qAgg[r]]
    /\ \A k \in DOMAIN cItems : \E p \in QueryParams :
          /\ k = QuotasKey(p.region, p.service)
          /\ cItems[k].Value \in AggResults(ResolvedRegions(p.region), p.service)
    /\ \A r \in Reqs :
          (/\ qPc[r] = "done" /\ qResp[r].status = 200
           /\ qReq[r].kind \in {"quotas", "export"} /\ qReq[r].search = <<>>) =>
              /\ qResp[r].quotas \in AggResults(ResolvedRegions(qReq[r].region), qReq[r].service)
              /\ qFresh[r].found => qResp[r].quotas = qFresh[r].value[1]

\* a query with search term "vpc" populated the cache and answered with the
\* one matching quota; an export with the same key then returned all three
C8_Witness ==
    \E a \in Reqs, b \in Reqs :
        /\ a # b /\ QuotasDone(a)
        /\ qReq[a].search = <<"vpc">>
        /\ ~qFresh[a].found /\ qResp[a].status = 200 /\ qResp[a].total = 1
        /\ qStored[a].value # Nil /\ Len(qStored[a].value[1]) = 3
        /\ qPc[b] = "done" /\ qReq[b].kind = "export"
        /\ qReq[b].region = qReq[a].region /\ qReq[b].service = qReq[a].service
        /\ qResp[b].status = 200 /\ qResp[b].total = 3
        /\ qResp[b].quotas = qStored[a].value[1]
        /\ ReqKey(b) \in DOMAIN cItems /\ cItems[ReqKey(b)].Value = qResp[b].quotas

\* the list a finished query filtered: the cached one or the fetched one
QuerySource(r) == IF qFresh[r].found THEN qFresh[r].value[1] ELSE qAgg[r][1]

(***************************************************************************)
(* C22  Search post-filter: with a non-empty search term the response of   *)
(* GetQuotas holds exactly the quotas of the cached or fetched list whose  *)
(* quota name, service name or service code contains the term, letter case *)
(* ignored, in their order in that list; with an empty term it holds the   *)
(* whole list; Total is the length of the list in the response.            *)
(***************************************************************************)
C22_SearchPostFilter ==
    \A r \in Reqs : (QuotasDone(r) /\ qResp[r].status = 200) =>
        LET term == qReq[r].search
            Hit(q) == \E field \in {q.QuotaName, q.ServiceName, q.ServiceCode} :
                          Contains(ToLower(field), ToLower(term))
        IN  /\ term = <<>> => qResp[r].quotas = QuerySource(r)
            /\ term # <<>> => qResp[r].quotas = SelectSeq(QuerySource(r), Hit)
            /\ qResp[r].total = Len(qResp[r].quotas)

\* a query with the term "vpc" over a list of three quotas was answered with
\* the one whose service name "Amazon VPC" and code hold it, the quota name not
C22_Witness ==
    \E r \in Reqs :
        /\ QuotasDone(r) /\ qResp[r].status = 200
        /\ qReq[r].search = <<"vpc">>
        /\ Len(QuerySource(r)) = 3
        /\ qResp[r].total = 1
        /\ qResp[r].quotas[1].ServiceName = <<"Amazon ", "VPC">>
        /\ ~Contains(ToLower(qResp[r].quotas[1].QuotaName), <<"vpc">>)

\* the entry under key is there and Get would return it
FreshEntry(key) == key \in DOMAIN cItems /\ ~(cNow > cItems[key].ExpiresAt)

\* a step in which request r is answered by ExportJSON or ExportHTML
C24_ExportStep(r) ==
    (qPc[r] \in {"export", "report"} /\ qPc'[r] = "done") =>
        LET key == QuotasKey(qReq[r].region, qReq[r].service) IN
        /\ cItems' = cItems
        /\ Ops(r)' = <<"Get">>
        /\ ~FreshEntry(key) =>
              /\ qResp'[r].status = 400 /\ qResp'[r].quotas = <<>>
              /\ qReq[r].kind = "report" =>
                    qResp'[r].text = "No data available. Please fetch quotas first."
        /\ (FreshEntry(key) /\ qReq[r].kind = "export") =>
              /\ qResp'[r].status = 200
              /\ qResp'[r].quotas = cItems[key].Value
              /\ qResp'[r].total = Len(cItems[key].Value)
        /\ (FreshEntry(key) /\ qReq[r].kind = "report") =>
              /\ qResp'[r].status = 200
              /\ qResp'[r].text.total = Len(cItems[key].Value)
              /\ Len(qResp'[r].text.rows) = Len(cItems[key].Value)
              /\ \A k \in 1..Len(cItems[key].Value) :
                    LET q == cItems[key].Value[k]
                        row == qResp'[r].text.rows[k]
                    IN  /\ row[1] = q.Region /\ row[2] = q.ServiceName
                        /\ row[3] = q.QuotaName /\ row[4] = q.Value

(***************************************************************************)
(* C24  Export without data: ExportJSON and ExportHTML, asked for a key    *)
(* with no fresh cache entry (never set, expired or cleared), answer with  *)
(* the 400 "no data, fetch first" error, call nothing but cache.Get and    *)
(* leave the cache as it was; with a fresh entry ExportJSON answers with   *)
(* the cached list and Total equal to its length, ExportHTML with one row  *)
(* per cached quota in the same order and the same total.                  *)
(***************************************************************************)
C24_ExportWithoutData == [][\A r \in Reqs : C24_ExportStep(r)]_vars

\* an export found only an expired entry under its key and answered 400,
\* and a report answered with the rows of a fresh entry of three quotas
C24_Witness ==
    \E a \in Reqs, b \in Reqs :
        /\ qPc[a] = "done" /\ qReq[a].kind = "export" /\ qResp[a].status = 400
        /\ ~qFresh[a].found
        /\ ReqKey(a) \in DOMAIN cItems /\ cNow > cItems[ReqKey(a)].ExpiresAt
        /\ qPc[b] = "done" /\ qReq[b].kind = "report" /\ qResp[b].status = 200
        /\ qResp[b].text.total = 3

\* the step in which request r, whose miss a Refresh has followed, stores
C33_StoreStep(r) ==
    (qPc[r] = "store" /\ qPc'[r] = "done" /\ qCleared[r]) =>
        /\ ReqKey(r) \in DOMAIN cItems'
        /\ cItems'[ReqKey(r)] = [Value |-> qAgg[r][1], ExpiresAt |-> cNow + CacheTTL]

C34_OwnAggregation ==
    \A r \in Reqs : (QuotasDone(r) /\ ~qFresh[r].found /\ qResp[r].status = 200) =>
        /\ Cardinality({ i \in DOMAIN qLog[r] : qLog[r][i].op = "Aggregate" }) = 1
        /\ ~qResp[r].fromCache
        /\ qResp[r].quotas = SearchFilter(qAgg[r][1], qReq[r].search)

\* the Set of a query replaces whatever another query has stored meanwhile
C34_StoreStep(r) ==
    (qPc[r] = "store" /\ qPc'[r] = "done") =>
        /\ cItems'[ReqKey(r)].Value = qAgg[r][1]
        /\ \A k \in DOMAIN cItems \ {ReqKey(r)} : cItems'[k] = cItems[k]

\* C34: no request coalescing: queries for one cache key that all miss run
\* an aggregation each and answer with its result and fromCache=false, and
\* each Set overwrites the entry, so the cache ends up with the result of
\* the Set that ran last.
C34_NoCoalescing == []C34_OwnAggregation /\ [][\A r \in Reqs : C34_StoreStep(r)]_vars

\* the only two requests so far asked for the same key, both missed and
\* aggregated, with different results; the cache holds the one of b
C34_Witness ==
    \E a \in Reqs, b \in Reqs :
        /\ a # b /\ qCount = 2 /\ QuotasDone(a) /\ QuotasDone(b)
        /\ ReqKey(a) = ReqKey(b)
        /\ ~qFresh[a].found /\ ~qFresh[b].found
        /\ qResp[a].status = 200 /\ qResp[b].status = 200
        /\ ~qResp[a].fromCache /\ ~qResp[b].fromCache
        /\ qAgg[a] # qAgg[b]
        /\ cItems[ReqKey(a)].Value = qAgg[b][1]

\* all the regions of the aggregation of r failed
AllRegionsFailed(r) == qRegions[r] # <<>> /\ qFailed[r] = 1..Len(qRegions[r])

\* some but not all of them did
SomeRegionsFailed(r) == qFailed[r] # {} /\ ~AllRegionsFailed(r)

\* a miss stores what the aggregation returned, be it short or empty
C35_StoreStep(r) ==
    (qPc[r] = "store" /\ qPc'[r] = "done") =>
        /\ ReqKey(r) \in DOMAIN cItems'
        /\ cItems'[ReqKey(r)].Value = qAgg[r][1]
        /\ cItems'[ReqKey(r)].ExpiresAt = cNow + CacheTTL
        /\ AllRegionsFailed(r) => cItems'[ReqKey(r)].Value = <<>>

\* a query that finds a live entry answers from it and does not aggregate
C35_LookupStep(r) ==
    (qPc[r] = "lookup" /\ qPc'[r] # "lookup" /\ FreshEntry(ReqKey(r))) =>
        /\ qPc'[r] = "done"
        /\ qResp'[r] = QuotaResponse(SearchFilter(cItems[ReqKey(r)].Value, qReq[r].search), TRUE)
        /\ cItems[ReqKey(r)].Value = <<>> => qResp'[r] = QuotaResponse(<<>>, TRUE)
        /\ \A i \in DOMAIN qLog'[r] : qLog'[r][i].op # "Aggregate"

\* every aggregation that reaches the Set returned no error
C35_DegradedReachesSet ==
    \A r \in Reqs : qPc[r] = "store" => qAgg[r] = Ptr(qQuotas[r])

C35_PartialWitness ==
    \E a \in Reqs, b \in Reqs :
        /\ a # b /\ qCount = 2 /\ QuotasDone(a) /\ QuotasDone(b)
        /\ ReqKey(a) = ReqKey(b)
        /\ ~qFresh[a].found /\ SomeRegionsFailed(a)
        /\ qFresh[b].found /\ qFresh[b].value = qAgg[a]
        /\ qResp[b].fromCache

(***************************************************************************)
(* C15  Hard-error propagation: GetQuotas answers with a hard error (500)  *)
(* only when the selector is empty or "all" and the region enumeration     *)
(* failed; with an explicit selector it always answers 200 with the data   *)
(* the aggregation (or the cache) delivered, whatever regions failed.      *)
(***************************************************************************)
C15_HardError ==
    \A r \in Reqs : QuotasDone(r) =>
        /\ qResp[r].status # 200 =>
              /\ qResp[r].status = 500
              /\ AllRegionsSelected(qReq[r].region)
              /\ Ops(r) = <<"GetRegions">>
        /\ ~AllRegionsSelected(qReq[r].region) =>
              /\ qResp[r].status = 200
              /\ ~qFresh[r].found =>
                    /\ qAgg[r] # Nil
                    /\ qAgg[r][1] \in AggResults(Split(qReq[r].region), qReq[r].service)
                    /\ qResp[r].quotas = SearchFilter(qAgg[r][1], qReq[r].search)

\* a query with an explicit selector whose regions all failed was answered
\* 200 with the empty list; one with the "all" selector was answered 500
C15_Witness ==
    \E a \in Reqs, b \in Reqs :
        /\ QuotasDone(a) /\ QuotasDone(b)
        /\ ~AllRegionsSelected(qReq[a].region)
        /\ ~qFresh[a].found /\ qAgg[a] = Ptr(<<>>) /\ qResp[a].status = 200
        /\ \E full \in AggResults(Split(qReq[a].region), qReq[a].service) : full # <<>>
        /\ AllRegionsSelected(qReq[b].region) /\ qResp[b].status = 500

(***************************************************************************)
(* QuotaFetcher.limiter: rate.NewLimiter(rate.Limit(5), 10) and the        *)
(* limiter.Wait(ctx) calls of GetServices, fetchDefaultQuotas and          *)
(* fetchAppliedQuotas.  The bucket is counted in 1/TicksPerSecond of a     *)
(* token, so that one clock tick adds rate units and one acquisition       *)
(* takes TicksPerSecond units; the arithmetic is exact.                    *)
(***************************************************************************)
NewLimiter(r, b) == [rate |-> r, burst |-> b]

\* NewQuotaFetcher: limiter: rate.NewLimiter(rate.Limit(5), 10) with the
\* arguments exchanged.
FetcherLimiterSwapped == NewLimiter(LimiterBurst, LimiterRate)

\* NewQuotaFetcher: limiter: rate.NewLimiter(rate.Limit(5), 10)
FetcherLimiter == NewLimiter(LimiterRate, LimiterBurst)

\* the callers of limiter.Wait (region fetches sharing the fetcher)
LimCallers == {1, 2}

\* one token, in bucket units
TokenUnits == TicksPerSecond

\* a full bucket, in bucket units
FullBucket(lim) == lim.burst * TokenUnits

\* the bucket after one clock tick: rate tokens a second, never above burst
Refill(lim, tokens) ==
    IF tokens + lim.rate > FullBucket(lim) THEN FullBucket(lim) ELSE tokens + lim.rate

\* the ticks until a deficit of d bucket units has regenerated (rounded up:
\* the caller is seen again at the first tick at or after its timer)
TicksFor(lim, d) == (d + lim.rate - 1) \div lim.rate

NoAcquire == 0

\* one call of limiter.Wait: when it was made, whether it had to wait, the
\* time its reservation allows it to act, when it returned (-1: not yet) and
\* the error it returned
Acquisition(at, blocked, wake, ret, err) ==
    [at |-> at, blocked |-> blocked, wake |-> wake, ret |-> ret, err |-> err]

InitLimiter ==
    /\ lNow = 0
    /\ lTokens = FullBucket(FetcherLimiter)
    /\ lCancelled = FALSE
    /\ lPc = [c \in LimCallers |-> "idle"]
    /\ lIdx = [c \in LimCallers |-> NoAcquire]
    /\ lLog = <<>>
    /\ AggIdle
    /\ RegionIdle
    /\ CacheIdle
    /\ QueryIdle
    /\ ListIdle

\* time passes: the bucket refills
LimTick ==
    /\ lNow < MaxLimiterTicks
    /\ lNow' = lNow + 1
    /\ lTokens' = Refill(FetcherLimiter, lTokens)
    /\ UNCHANGED <<lCancelled, lPc, lIdx, lLog>>
    /\ UNCHANGED notLimVars

\* the context handed to Wait is cancelled
LimCancel ==
    /\ ~lCancelled
    /\ lCancelled' = TRUE
    /\ UNCHANGED <<lNow, lTokens, lPc, lIdx, lLog>>
    /\ UNCHANGED notLimVars

\* limiter.Wait(ctx) with a context that is already done: an error at once,
\* nothing is reserved
LimWaitCancelled(c) ==
    /\ lPc[c] = "idle"
    /\ Len(lLog) < MaxAcquire
    /\ lCancelled
    /\ lLog' = Append(lLog, Acquisition(lNow, FALSE, lNow, lNow, "Cancelled"))
    /\ lIdx' = [lIdx EXCEPT ![c] = Len(lLog) + 1]
    /\ lPc' = [lPc EXCEPT ![c] = "returned"]
    /\ UNCHANGED <<lNow, lTokens, lCancelled>>
    /\ UNCHANGED notLimVars

\* limiter.Wait(ctx): reserve one token; with the token in the bucket the
\* call returns nil at once, otherwise the caller sleeps until the
\* reservation's time to act
LimWait(c) ==
    /\ lPc[c] = "idle"
    /\ Len(lLog) < MaxAcquire
    /\ ~lCancelled
    /\ LET left == lTokens - TokenUnits
           wake == IF left >= 0 THEN lNow ELSE lNow + TicksFor(FetcherLimiter, -left)
       IN  /\ lTokens' = left
           /\ lLog' = Append(lLog,
                  Acquisition(lNow, wake > lNow, wake,
                              IF wake > lNow THEN -1 ELSE lNow, "nil"))
           /\ lPc' = [lPc EXCEPT ![c] = IF wake > lNow THEN "waiting" ELSE "returned"]
    /\ lIdx' = [lIdx EXCEPT ![c] = Len(lLog) + 1]
    /\ UNCHANGED <<lNow, lCancelled>>
    /\ UNCHANGED notLimVars

\* the sleeping caller's timer fires: Wait returns nil
LimWake(c) ==
    /\ lPc[c] = "waiting"
    /\ lNow >= lLog[lIdx[c]].wake
    /\ lLog' = [lLog EXCEPT ![lIdx[c]].ret = lNow]
    /\ lPc' = [lPc EXCEPT ![c] = "returned"]
    /\ UNCHANGED <<lNow, lTokens, lCancelled, lIdx>>
    /\ UNCHANGED notLimVars

\* the context is done while the caller sleeps, before its timer: Wait
\* returns the context's error.  (The reservation is handed back; no
\* acquisition under this context follows, so the bucket is not read again.)
LimWaitAbort(c) ==
    /\ lPc[c] = "waiting"
    /\ lCancelled
    /\ lNow < lLog[lIdx[c]].wake
    /\ lLog' = [lLog EXCEPT ![lIdx[c]].ret = lNow, ![lIdx[c]].err = "Cancelled"]
    /\ lPc' = [lPc EXCEPT ![c] = "returned"]
    /\ UNCHANGED <<lNow, lTokens, lCancelled, lIdx>>
    /\ UNCHANGED notLimVars

\* the caller goes on to its next guarded call
LimNextCall(c) ==
    /\ lPc[c] = "returned"
    /\ lPc' = [lPc EXCEPT ![c] = "idle"]
    /\ UNCHANGED <<lNow, lTokens, lCancelled, lIdx, lLog>>
    /\ UNCHANGED notLimVars

NextLimiter ==
    \/ LimTick
    \/ LimCancel
    \/ \E c \in LimCallers : LimWaitCancelled(c)
    \/ \E c \in LimCallers : LimWait(c)
    \/ \E c \in LimCallers : LimWake(c)
    \/ \E c \in LimCallers : LimWaitAbort(c)
    \/ \E c \in LimCallers : LimNextCall(c)

SpecLimiter == InitLimiter /\ [][NextLimiter]_vars

\* the acquisitions made before the clock first moved: the bucket was full
\* when the first of them was made
Immediate == { k \in 1..Len(lLog) : lLog[k].at = 0 /\ lLog[k].err = "nil" }

\* C11: with burst LimiterBurst = 10 and rate LimiterRate = 5 a second and a
\* full bucket, the first LimiterBurst acquisitions made at once return
\* without blocking; the next one blocks, and does not return nil before a
\* whole token has regenerated (and is allowed to as soon as one has).
C11_Burst ==
    /\ \A k \in Immediate :
          /\ k <= LimiterBurst => ~lLog[k].blocked /\ lLog[k].ret = 0
          /\ k = LimiterBurst + 1 =>
                /\ lLog[k].blocked
                /\ (lLog[k].wake - lLog[k].at) * LimiterRate >= TokenUnits
                /\ (lLog[k].wake - lLog[k].at - 1) * LimiterRate < TokenUnits
    /\ \A k \in 1..Len(lLog) :
          (lLog[k].blocked /\ lLog[k].ret # -1 /\ lLog[k].err = "nil")
             => lLog[k].ret >= lLog[k].wake /\ lLog[k].wake > lLog[k].at

\* LimiterBurst acquisitions went through at once, one more blocked and
\* returned when its token had come
C11_Witness ==
    /\ Cardinality(Immediate) = LimiterBurst + 1
    /\ lLog[LimiterBurst + 1].blocked
    /\ lLog[LimiterBurst + 1].ret >= lLog[LimiterBurst + 1].wake
    /\ lLog[LimiterBurst + 1].err = "nil"

(***************************************************************************)
(*               THE LISTING HANDLERS: GetRegions, GetServices             *)
(***************************************************************************)
\* c.DefaultQuery(key, def): def when the parameter is absent
DefaultQuery(param, def) == IF param = Nil THEN def ELSE param[1]

ListingRequests ==
    { [kind |-> "regions", region |-> Nil],
      [kind |-> "services", region |-> Nil],
      [kind |-> "services", region |-> Ptr(<<"eu-west-1">>)] }

NoListingReq == [kind |-> "none", region |-> Nil]

\* the cacheKey of the two handlers
ListingKey(req) ==
    IF req.kind = "regions" THEN RegionsKey
    ELSE ServicesKey(DefaultQuery(req.region, <<"us-east-1">>))

\* the provider call of the handler: aws.GetRegions or fetcher.GetServices
ProviderOp(req) == IF req.kind = "regions" THEN "GetRegions" ELSE "GetServices"

\* ([]model.Region, error) of aws.GetRegions and ([]model.Service, error) of
\* QuotaFetcher.GetServices; what the provider lists can change between calls
ListingOutcomes(req) ==
    { [err |-> TRUE, listing |-> <<>>] }
    \cup { [err |-> FALSE, listing |-> l] :
             l \in IF req.kind = "regions"
                   THEN { EnabledRegions, << <<"us-east-1">> >> }
                   ELSE { <<SvcEC2, SvcVPC>>, <<SvcEC2>> } }

NoListing == [err |-> FALSE, listing |-> <<>>]

\* c.JSON(http.StatusOK, gin.H{"regions": ..., "from_cache": ...})
ListingResponse(listing, fromCache) ==
    [status |-> 200, listing |-> listing, from_cache |-> fromCache]

\* c.JSON(http.StatusInternalServerError, gin.H{"error": err.Error()})
ListingError == [status |-> 500, listing |-> <<>>, from_cache |-> FALSE]

NoListingResp == [status |-> 0, listing |-> <<>>, from_cache |-> FALSE]

\* a handler that stores whatever the provider call returned
AfterFetchAlwaysStore(err) == "store"

\* if err != nil { c.JSON(500, ...); return }
AfterFetch(err) == IF err THEN "done" ELSE "store"

InitListing ==
    /\ hPc = [r \in Reqs |-> "idle"]
    /\ hReq = [r \in Reqs |-> NoListingReq]
    /\ hResp = [r \in Reqs |-> NoListingResp]
    /\ hLog = [r \in Reqs |-> <<>>]
    /\ hFresh = [r \in Reqs |-> NoLookup]
    /\ hListing = [r \in Reqs |-> NoListing]
    /\ hStored = [r \in Reqs |-> NoStored]
    /\ hCount = 0
    /\ cItems = NoItems
    /\ cNow = 0
    /\ CacheCallersIdle
    /\ AggIdle
    /\ RegionIdle
    /\ QueryIdle
    /\ LimIdle

\* a request arrives and gin routes it
LsStart(r) ==
    /\ hPc[r] = "idle"
    /\ hCount < MaxRequests
    /\ hCount' = hCount + 1
    /\ \E req \in ListingRequests : hReq' = [hReq EXCEPT ![r] = req]
    /\ hPc' = [hPc EXCEPT ![r] = "lookup"]
    /\ UNCHANGED <<hResp, hLog, hFresh, hListing, hStored>>
    /\ UNCHANGED <<cItems, cNow>>
    /\ UNCHANGED notListVars

\* if cached, ok := h.cache.Get(cacheKey); ok { c.JSON(...); return }
LsLookup(r) ==
    /\ hPc[r] = "lookup"
    /\ LET g == CacheGet(cItems, cNow, ListingKey(hReq[r])) IN
        /\ hFresh' = [hFresh EXCEPT ![r] = g]
        /\ hLog' = [hLog EXCEPT ![r] = Append(@, Event("Get", ListingKey(hReq[r])))]
        /\ IF g.found
           THEN /\ hResp' = [hResp EXCEPT ![r] = ListingResponse(g.value[1], TRUE)]
                /\ hPc' = [hPc EXCEPT ![r] = "done"]
           ELSE /\ hPc' = [hPc EXCEPT ![r] = "fetch"]
                /\ UNCHANGED hResp
    /\ UNCHANGED <<hReq, hListing, hStored, hCount>>
    /\ UNCHANGED <<cItems, cNow>>
    /\ UNCHANGED notListVars

\* aws.GetRegions(ctx) / h.fetcher.GetServices(ctx, region), and the error
\* response
LsFetch(r) ==
    /\ hPc[r] = "fetch"
    /\ \E o \in ListingOutcomes(hReq[r]) :
        /\ hListing' = [hListing EXCEPT ![r] = o]
        /\ hPc' = [hPc EXCEPT ![r] = AfterFetch(o.err)]
        /\ IF o.err
           THEN hResp' = [hResp EXCEPT ![r] = ListingError]
           ELSE UNCHANGED hResp
    /\ hLog' = [hLog EXCEPT ![r] = Append(@, Event(ProviderOp(hReq[r]), <<>>))]
    /\ UNCHANGED <<hReq, hFresh, hStored, hCount>>
    /\ UNCHANGED <<cItems, cNow>>
    /\ UNCHANGED notListVars

\* h.cache.Set(cacheKey, listing) and the response
LsStore(r) ==
    /\ hPc[r] = "store"
    /\ cItems' = CacheSet(cItems, cNow, CacheTTL, ListingKey(hReq[r]), hListing[r].listing)
    /\ hStored' = [hStored EXCEPT ![r] = [key |-> ListingKey(hReq[r]),
                                          value |-> Ptr(hListing[r].listing)]]
    /\ hLog' = [hLog EXCEPT ![r] = Append(@, Event("Set", ListingKey(hReq[r])))]
    /\ hResp' = [hResp EXCEPT ![r] = ListingResponse(hListing[r].listing, FALSE)]
    /\ hPc' = [hPc EXCEPT ![r] = "done"]
    /\ UNCHANGED <<hReq, hFresh, hListing, hCount>>
    /\ UNCHANGED cNow
    /\ UNCHANGED notListVars

\* the handler returns
LsFinish(r) ==
    /\ hPc[r] = "done"
    /\ hPc' = [hPc EXCEPT ![r] = "idle"]
    /\ hReq' = [hReq EXCEPT ![r] = NoListingReq]
    /\ hResp' = [hResp EXCEPT ![r] = NoListingResp]
    /\ hLog' = [hLog EXCEPT ![r] = <<>>]
    /\ hFresh' = [hFresh EXCEPT ![r] = NoLookup]
    /\ hListing' = [hListing EXCEPT ![r] = NoListing]
    /\ hStored' = [hStored EXCEPT ![r] = NoStored]
    /\ UNCHANGED hCount
    /\ UNCHANGED <<cItems, cNow>>
    /\ UNCHANGED notListVars

\* time passes
LsTick ==
    /\ cNow < MaxTime
    /\ cNow' = cNow + 1
    /\ UNCHANGED cItems
    /\ UNCHANGED listVars
    /\ UNCHANGED notListVars

\* the cleanup goroutine of the cache runs
LsSweep ==
    /\ cItems' = CacheCleanup(cItems, cNow)
    /\ UNCHANGED cNow
    /\ UNCHANGED listVars
    /\ UNCHANGED notListVars

NextListing ==
    \/ \E r \in Reqs : LsStart(r)
    \/ \E r \in Reqs : LsLookup(r)
    \/ \E r \in Reqs : LsFetch(r)
    \/ \E r \in Reqs : LsStore(r)
    \/ \E r \in Reqs : LsFinish(r)
    \/ LsTick
    \/ LsSweep

SpecListing == InitListing /\ [][NextListing]_vars

\* the calls a listing request made, in order
HandlerOps(r) == [i \in DOMAIN hLog[r] |-> hLog[r][i].op]

\* what a finished listing request did and answered
C31_ListingState ==
    \A r \in Reqs : hPc[r] = "done" =>
        /\ hFresh[r].found =>
              /\ hResp[r] = [status |-> 200, listing |-> hFresh[r].value[1],
                             from_cache |-> TRUE]
              /\ HandlerOps(r) = <<"Get">>
              /\ hStored[r] = NoStored
        /\ (~hFresh[r].found /\ ~hListing[r].err) =>
              /\ HandlerOps(r) = <<"Get", ProviderOp(hReq[r]), "Set">>
              /\ hResp[r] = [status |-> 200, listing |-> hListing[r].listing,
                             from_cache |-> FALSE]
              /\ hStored[r] = [key |-> ListingKey(hReq[r]),
                               value |-> Ptr(hListing[r].listing)]
        /\ (~hFresh[r].found /\ hListing[r].err) =>
              /\ HandlerOps(r) = <<"Get", ProviderOp(hReq[r])>>
              /\ hResp[r].status = 500
              /\ hStored[r] = NoStored

\* what a step of a listing request reads from and does to the cache
C31_ListingStep ==
    \A r \in Reqs :
        LET key == ListingKey(hReq[r]) IN
        /\ (hPc[r] = "lookup" /\ hPc'[r] # "lookup") =>
              /\ hFresh'[r].found <=> FreshEntry(key)
              /\ FreshEntry(key) => hFresh'[r].value = Ptr(cItems[key].Value)
        /\ (hPc[r] # hPc'[r] /\ hPc[r] # "store") => cItems' = cItems
        /\ (hPc[r] = "store" /\ hPc'[r] # "store") =>
              /\ DOMAIN cItems' = DOMAIN cItems \cup {key}
              /\ cItems'[key] = [Value |-> hListing[r].listing,
                                 ExpiresAt |-> cNow + CacheTTL]
              /\ \A k \in DOMAIN cItems \ {key} : cItems'[k] = cItems[k]

\* C31: GetRegions and GetServices are cache-fronted: with a fresh entry
\* under "regions" or "services:<region>" the handler answers with it and
\* from_cache=true and calls nothing else; on a miss it calls the provider,
\* on success stores the listing under the key and answers with it and
\* from_cache=false, on failure answers 500 and leaves the cache as it was.
C31_ListingsCacheFronted == []C31_ListingState /\ [][C31_ListingStep]_vars

\* GetServices without a region parameter missed, fetched and stored a
\* listing under "services:us-east-1"; a second request was answered with the
\* stored listing from the cache
C31_Witness ==
    \E a \in Reqs, b \in Reqs :
        /\ a # b /\ hPc[a] = "done" /\ hPc[b] = "done"
        /\ hReq[a] = [kind |-> "services", region |-> Nil]
        /\ ~hFresh[a].found /\ ~hListing[a].err
        /\ hStored[a].key = <<"services:", "us-east-1">>
        /\ hReq[b].kind = "services"
        /\ hFresh[b].found /\ hResp[b].from_cache
        /\ hResp[b].listing = hStored[a].value[1]
        /\ HandlerOps(b) = <<"Get">>
====
